---------------------------- MODULE Spec2Model ----------------------------
(***************************************************************************)
(* Container runtime resolution of pkg/container: the Runtime Detector     *)
(* (runtime_detector.go), the Container Factory (factory.go) and the Null  *)
(* Adapter (null_container.go).                                            *)
(*                                                                         *)
(* Strings are sequences of chunks.  Where the code looks inside a string  *)
(* (strings.ToLower, strings.Contains) the string is written one character *)
(* per chunk; a socket path of the candidate table, which the code only    *)
(* expands, stats and prefixes, is written in coarser chunks.              *)
(***************************************************************************)
EXTENDS Naturals, Sequences, FiniteSets

VARIABLES
    runtimeOverride,  \* factory.go:19   package variable runtimeOverride
    rd,               \* factory.go:16   globalDetector: preferredRuntime, customSocket
    env,              \* the process environment read through os.Getenv
    world,            \* what the host answers to LookPath, Lstat, Ping, podman info
    handle,           \* the adapter whose operations are being called, Nil if none
    ret,              \* the operation that ran last and what it returned
    calls             \* each worker's position in the resolution call it is in

vars == <<runtimeOverride, rd, env, world, handle, ret, calls>>

---------------------------------------------------------------------------
(* ContainerRuntime, runtime_detector.go:17-35 *)

RuntimeUnknown == "RuntimeUnknown"
RuntimeDocker == "RuntimeDocker"
RuntimePodman == "RuntimePodman"

ContainerRuntime == {RuntimeUnknown, RuntimeDocker, RuntimePodman}

docker == <<"d", "o", "c", "k", "e", "r">>
podman == <<"p", "o", "d", "m", "a", "n">>
unknown == <<"u", "n", "k", "n", "o", "w", "n">>

String(r) ==
    CASE r = RuntimeDocker -> docker
      [] r = RuntimePodman -> podman
      [] OTHER -> unknown

---------------------------------------------------------------------------
(* strings.ToLower, strings.Contains, strings.HasPrefix on chunk sequences *)

UpperLetters ==
    <<"A", "B", "C", "D", "E", "F", "G", "H", "I", "J", "K", "L", "M",
      "N", "O", "P", "Q", "R", "S", "T", "U", "V", "W", "X", "Y", "Z">>

LowerLetters ==
    <<"a", "b", "c", "d", "e", "f", "g", "h", "i", "j", "k", "l", "m",
      "n", "o", "p", "q", "r", "s", "t", "u", "v", "w", "x", "y", "z">>

LowerChar(c) ==
    IF \E i \in DOMAIN UpperLetters : UpperLetters[i] = c
    THEN LowerLetters[CHOOSE i \in DOMAIN UpperLetters : UpperLetters[i] = c]
    ELSE c

ToLower(s) == [i \in DOMAIN s |-> LowerChar(s[i])]

HasPrefix(s, p) == Len(p) <= Len(s) /\ SubSeq(s, 1, Len(p)) = p

Contains(s, sub) ==
    \E i \in 1..(Len(s) + 1) :
        i + Len(sub) - 1 <= Len(s) /\ SubSeq(s, i, i + Len(sub) - 1) = sub

RECURSIVE Flatten(_)
Flatten(ss) == IF ss = <<>> THEN <<>> ELSE Head(ss) \o Flatten(Tail(ss))

---------------------------------------------------------------------------
(* The environment.  os.Getenv gives "" for an unset variable. *)

ACT_CONTAINER_RUNTIME == "ACT_CONTAINER_RUNTIME"
ACT_CONTAINER_SOCKET == "ACT_CONTAINER_SOCKET"
PODMAN_HOST == "PODMAN_HOST"
DOCKER_HOST == "DOCKER_HOST"
HOME == "HOME"
XDG_RUNTIME_DIR == "XDG_RUNTIME_DIR"

HintVars == {ACT_CONTAINER_RUNTIME, PODMAN_HOST, DOCKER_HOST}
EnvVars == HintVars \cup {ACT_CONTAINER_SOCKET, HOME, XDG_RUNTIME_DIR}

Unset == <<>>

Getenv(e, name) == e[name]

(* os.ExpandEnv on a path whose placeholders are chunks of their own *)
Placeholders == [c \in {"$HOME", "$XDG_RUNTIME_DIR"} |->
                    IF c = "$HOME" THEN HOME ELSE XDG_RUNTIME_DIR]

ExpandEnv(e, path) ==
    Flatten([i \in DOMAIN path |->
                IF path[i] \in DOMAIN Placeholders
                THEN Getenv(e, Placeholders[path[i]])
                ELSE <<path[i]>>])

---------------------------------------------------------------------------
(* What the host answers.                                                  *)
(*   binaries      names exec.LookPath resolves                            *)
(*   sockets       paths os.Lstat reports as a socket or a named pipe      *)
(*   live          host URIs on which a client's Ping succeeds in time     *)
(*   dockerSocket  the URI socketLocation() discovers, Unset if none       *)
(*   podmanInfo    `podman info --format json` exits 0 within 5 seconds    *)
(*   machineSocket what `podman machine inspect` prints within 3 seconds,  *)
(*                 trimmed; Unset if it fails or prints nothing            *)
(*   createError   where containers are created: the error createGeneric   *)
(*                 comes back with                                         *)

LookPath(w, name) == name \in w.binaries

Ping(w, host) == host \in w.live

socketLocation(w) == [socket |-> w.dockerSocket, found |-> w.dockerSocket # Unset]

UnixScheme == <<"unix://">>
NpipeScheme == <<"npipe://">>
PipePrefix == "\\\\.\\"

(* filepath.ToSlash where the separator is a backslash (named-pipe hosts) *)
ToSlash(path) ==
    [i \in DOMAIN path |->
        CASE path[i] = PipePrefix -> "//./"
          [] path[i] = "pipe\\docker_engine" -> "pipe/docker_engine"
          [] path[i] = "pipe\\podman-machine-default" -> "pipe/podman-machine-default"
          [] OTHER -> path[i]]

(* runtime_detector.go:237-242 and 364-369 *)
HostOf(path) ==
    IF Len(path) > 0 /\ path[1] = PipePrefix
    THEN NpipeScheme \o ToSlash(path)
    ELSE UnixScheme \o path

---------------------------------------------------------------------------
(* RuntimeDetector, runtime_detector.go *)

RuntimeSocket(path, runtime, score) ==
    [Path |-> path, Runtime |-> runtime, Score |-> score]

NewRuntimeDetector == [preferredRuntime |-> RuntimeUnknown, customSocket |-> Unset]

SetPreferredRuntime(d, runtime) == [d EXCEPT !.preferredRuntime = runtime]

DetectorSetCustomSocket(d, socket) == [d EXCEPT !.customSocket = socket]

(* checkEnvironmentHints comparing the variable as written *)
checkEnvironmentHintsExact(e) ==
    LET actRuntime == Getenv(e, ACT_CONTAINER_RUNTIME) IN
    IF actRuntime # Unset /\ actRuntime = docker THEN RuntimeDocker
    ELSE IF actRuntime # Unset /\ actRuntime = podman THEN RuntimePodman
    ELSE IF Getenv(e, PODMAN_HOST) # Unset THEN RuntimePodman
    ELSE IF Getenv(e, DOCKER_HOST) # Unset THEN RuntimeDocker
    ELSE RuntimeUnknown

checkEnvironmentHints(e) ==
    LET actRuntime == Getenv(e, ACT_CONTAINER_RUNTIME) IN
    IF actRuntime # Unset /\ ToLower(actRuntime) = docker THEN RuntimeDocker
    ELSE IF actRuntime # Unset /\ ToLower(actRuntime) = podman THEN RuntimePodman
    ELSE IF Getenv(e, PODMAN_HOST) # Unset THEN RuntimePodman
    ELSE IF Getenv(e, DOCKER_HOST) # Unset THEN RuntimeDocker
    ELSE RuntimeUnknown

socketExists(w, path) == path \in w.sockets

(* guessRuntimeFromSocket looking for "docker" before "podman" *)
guessRuntimeFromSocketDockerFirst(socket) ==
    LET lower == ToLower(socket) IN
    IF Contains(lower, docker) THEN RuntimeDocker
    ELSE IF Contains(lower, podman) THEN RuntimePodman
    ELSE RuntimeDocker

guessRuntimeFromSocket(socket) ==
    LET lower == ToLower(socket) IN
    IF Contains(lower, podman) THEN RuntimePodman
    ELSE IF Contains(lower, docker) THEN RuntimeDocker
    ELSE RuntimeDocker

(* The table with the system-wide Docker socket scored above Podman's *)
candidatesDockerFirst ==
    << RuntimeSocket(<<"$XDG_RUNTIME_DIR", "/podman/podman.sock">>, RuntimePodman, 95),
       RuntimeSocket(<<"/run/podman/podman.sock">>, RuntimePodman, 90),
       RuntimeSocket(<<"$HOME", "/.local/share/containers/podman/machine/podman.sock">>,
                     RuntimePodman, 85),
       RuntimeSocket(<<"/var/run/docker.sock">>, RuntimeDocker, 88),
       RuntimeSocket(<<"$HOME", "/.colima/docker.sock">>, RuntimeDocker, 75),
       RuntimeSocket(<<"$XDG_RUNTIME_DIR", "/docker.sock">>, RuntimeDocker, 70),
       RuntimeSocket(<<"$HOME", "/.docker/run/docker.sock">>, RuntimeDocker, 65),
       RuntimeSocket(<<PipePrefix, "pipe\\docker_engine">>, RuntimeDocker, 60),
       RuntimeSocket(<<PipePrefix, "pipe\\podman-machine-default">>, RuntimePodman, 85) >>

candidates ==
    << RuntimeSocket(<<"$XDG_RUNTIME_DIR", "/podman/podman.sock">>, RuntimePodman, 95),
       RuntimeSocket(<<"/run/podman/podman.sock">>, RuntimePodman, 90),
       RuntimeSocket(<<"$HOME", "/.local/share/containers/podman/machine/podman.sock">>,
                     RuntimePodman, 85),
       RuntimeSocket(<<"/var/run/docker.sock">>, RuntimeDocker, 80),
       RuntimeSocket(<<"$HOME", "/.colima/docker.sock">>, RuntimeDocker, 75),
       RuntimeSocket(<<"$XDG_RUNTIME_DIR", "/docker.sock">>, RuntimeDocker, 70),
       RuntimeSocket(<<"$HOME", "/.docker/run/docker.sock">>, RuntimeDocker, 65),
       RuntimeSocket(<<PipePrefix, "pipe\\docker_engine">>, RuntimeDocker, 60),
       RuntimeSocket(<<PipePrefix, "pipe\\podman-machine-default">>, RuntimePodman, 85) >>

(* runtime_detector.go:177-186: the candidates that exist, in table order *)
RECURSIVE collectAvailable(_, _, _)
collectAvailable(e, w, k) ==
    IF k > Len(candidates) THEN <<>>
    ELSE LET expanded == ExpandEnv(e, candidates[k].Path) IN
         (IF socketExists(w, expanded)
          THEN <<RuntimeSocket(expanded, candidates[k].Runtime, candidates[k].Score)>>
          ELSE <<>>) \o collectAvailable(e, w, k + 1)

Swap(a, i, j) == [a EXCEPT ![i] = a[j], ![j] = a[i]]

(* The inner loop swapping on <= instead of < *)
RECURSIVE sortInnerSwapEqual(_, _, _)
sortInnerSwapEqual(a, i, j) ==
    IF j > Len(a) THEN a
    ELSE sortInnerSwapEqual(IF a[i].Score <= a[j].Score THEN Swap(a, i, j) ELSE a,
                            i, j + 1)

(* runtime_detector.go:189-195: the two loops, indices from 1 *)
RECURSIVE sortInner(_, _, _)
sortInner(a, i, j) ==
    IF j > Len(a) THEN a
    ELSE sortInner(IF a[i].Score < a[j].Score THEN Swap(a, i, j) ELSE a, i, j + 1)

RECURSIVE sortByScore(_, _)
sortByScore(a, i) ==
    IF i >= Len(a) THEN a ELSE sortByScore(sortInner(a, i, i + 1), i + 1)

detectRuntimeSockets(d, e, w) ==
    IF d.customSocket # Unset
    THEN <<RuntimeSocket(d.customSocket, guessRuntimeFromSocket(d.customSocket), 100)>>
    ELSE sortByScore(collectAvailable(e, w, 1), 1)

verifySocketConnection(w, socket) == Ping(w, HostOf(socket.Path))

verifyDocker(w) ==
    /\ LookPath(w, "docker")
    /\ socketLocation(w).found
    /\ Ping(w, socketLocation(w).socket)

verifyPodman(w) ==
    /\ LookPath(w, "podman")
    /\ w.podmanInfo

verifyRuntime(w, runtime) ==
    CASE runtime = RuntimeDocker -> verifyDocker(w)
      [] runtime = RuntimePodman -> verifyPodman(w)
      [] OTHER -> FALSE

(* The loop of autoDetectRuntime giving up at the first candidate that    *)
(* does not answer                                                         *)
firstVerifiedStopOnFailure(w, sockets, k) ==
    IF k > Len(sockets) THEN RuntimeUnknown
    ELSE IF verifySocketConnection(w, sockets[k]) THEN sockets[k].Runtime
    ELSE RuntimeUnknown

RECURSIVE firstVerified(_, _, _)
firstVerified(w, sockets, k) ==
    IF k > Len(sockets) THEN RuntimeUnknown
    ELSE IF verifySocketConnection(w, sockets[k]) THEN sockets[k].Runtime
    ELSE firstVerified(w, sockets, k + 1)

autoDetectRuntime(d, e, w) ==
    LET sockets == detectRuntimeSockets(d, e, w) IN
    IF Len(sockets) = 0 THEN RuntimeUnknown ELSE firstVerified(w, sockets, 1)

(* The log line that ends a detection, runtime_detector.go:78, 87, 95, 99 *)
LogPreferred == "Using preferred runtime"
LogEnvironment == "Using runtime from environment"
LogAuto == "Auto-detected runtime"
LogNone == "No container runtime detected"

(* DetectAvailableRuntime asking the environment before the preference *)
DetectAvailableRuntimeEnvFirst(d, e, w) ==
    LET hint == checkEnvironmentHints(e)
        auto == autoDetectRuntime(d, e, w)
    IN  IF hint # RuntimeUnknown /\ verifyRuntime(w, hint)
            THEN [runtime |-> hint, log |-> LogEnvironment]
        ELSE IF d.preferredRuntime # RuntimeUnknown /\ verifyRuntime(w, d.preferredRuntime)
            THEN [runtime |-> d.preferredRuntime, log |-> LogPreferred]
        ELSE IF auto # RuntimeUnknown
            THEN [runtime |-> auto, log |-> LogAuto]
        ELSE [runtime |-> RuntimeUnknown, log |-> LogNone]

DetectAvailableRuntime(d, e, w) ==
    LET hint == checkEnvironmentHints(e)
        auto == autoDetectRuntime(d, e, w)
    IN  IF d.preferredRuntime # RuntimeUnknown /\ verifyRuntime(w, d.preferredRuntime)
            THEN [runtime |-> d.preferredRuntime, log |-> LogPreferred]
        ELSE IF hint # RuntimeUnknown /\ verifyRuntime(w, hint)
            THEN [runtime |-> hint, log |-> LogEnvironment]
        ELSE IF auto # RuntimeUnknown
            THEN [runtime |-> auto, log |-> LogAuto]
        ELSE [runtime |-> RuntimeUnknown, log |-> LogNone]

---------------------------------------------------------------------------
(* Container Factory, factory.go *)

Nil == [adapter |-> "nil"]

(* The cli of a containerReference: nil until a connect sets it, then a    *)
(* client on a host                                                        *)
NilClient == [isNil |-> TRUE, host |-> <<>>]

Client(host) == [isNil |-> FALSE, host |-> host]

(* podman_run.go:16-21 *)
newPodmanContainer(input) ==
    [adapter |-> "containerReference", runtime |-> RuntimePodman, input |-> input,
     cli |-> NilClient]

(* the Docker adapter's constructor, the counterpart of newPodmanContainer *)
newDockerContainer(input) ==
    [adapter |-> "containerReference", runtime |-> RuntimeDocker, input |-> input,
     cli |-> NilClient]

(* null_container.go:19-23 *)
newNullContainer(input) ==
    [adapter |-> "nullContainer", runtime |-> RuntimeUnknown, input |-> input]

configureDetectorFromEnvironment(d, e) ==
    LET runtime == Getenv(e, ACT_CONTAINER_RUNTIME)
        socket == Getenv(e, ACT_CONTAINER_SOCKET)
        d1 == IF runtime # Unset /\ runtime = docker
                  THEN SetPreferredRuntime(d, RuntimeDocker)
              ELSE IF runtime # Unset /\ runtime = podman
                  THEN SetPreferredRuntime(d, RuntimePodman)
              ELSE d
    IN  IF socket # Unset THEN DetectorSetCustomSocket(d1, socket) ELSE d1

(* No detection ran: the override answered *)
NoDetection == "no detection"

(* getSelectedRuntime consulting the override only when detection finds nothing *)
getSelectedRuntimeDetectFirst(ov, d, e, w) ==
    LET configured == configureDetectorFromEnvironment(d, e)
        detected == DetectAvailableRuntime(configured, e, w)
    IN  IF detected.runtime = RuntimeUnknown /\ ov # RuntimeUnknown
        THEN [runtime |-> ov, rd |-> configured, detection |-> NoDetection]
        ELSE [runtime |-> detected.runtime, rd |-> configured,
              detection |-> detected.log]

(* getSelectedRuntime handing the detector back as it is constructed *)
getSelectedRuntimeForgetting(ov, d, e, w) ==
    IF ov # RuntimeUnknown
    THEN [runtime |-> ov, rd |-> d, detection |-> NoDetection]
    ELSE LET configured == configureDetectorFromEnvironment(d, e)
             detected == DetectAvailableRuntime(configured, e, w)
         IN  [runtime |-> detected.runtime, rd |-> NewRuntimeDetector,
              detection |-> detected.log]

(* The selected runtime, the detector as the call leaves it, and the log line *)
(* of the detection the call ran                                             *)
getSelectedRuntime(ov, d, e, w) ==
    IF ov # RuntimeUnknown
    THEN [runtime |-> ov, rd |-> d, detection |-> NoDetection]
    ELSE LET configured == configureDetectorFromEnvironment(d, e)
             detected == DetectAvailableRuntime(configured, e, w)
         IN  [runtime |-> detected.runtime, rd |-> configured,
              detection |-> detected.log]

(* The switch of NewContainer with a default branch that returns no handle *)
containerForNoDefault(runtime, input) ==
    CASE runtime = RuntimePodman -> newPodmanContainer(input)
      [] runtime = RuntimeDocker -> newDockerContainer(input)
      [] OTHER -> Nil

(* factory.go:36-47, the switch of NewContainer *)
containerFor(runtime, input) ==
    CASE runtime = RuntimePodman -> newPodmanContainer(input)
      [] runtime = RuntimeDocker -> newDockerContainer(input)
      [] OTHER -> newNullContainer(input)

(* NewContainerWithRuntime without the verification of factory.go:59-62 *)
containerWithRuntimeUnverified(w, runtime, input) ==
    [verified |-> verifyRuntime(w, runtime), handle |-> containerFor(runtime, input)]

(* factory.go:51-75: what verifyRuntime answered and the handle returned *)
containerWithRuntime(w, runtime, input) ==
    IF ~verifyRuntime(w, runtime)
    THEN [verified |-> FALSE, handle |-> newNullContainer(input)]
    ELSE [verified |-> TRUE, handle |-> containerFor(runtime, input)]

(* A Go slice: nil until the first append *)
NilSlice == [isNil |-> TRUE, elems |-> <<>>]

append(slice, x) == [isNil |-> FALSE, elems |-> Append(slice.elems, x)]

(* factory.go:125-137 *)
availableRuntimes(w) ==
    LET a0 == NilSlice
        a1 == IF verifyRuntime(w, RuntimeDocker) THEN append(a0, RuntimeDocker) ELSE a0
        a2 == IF verifyRuntime(w, RuntimePodman) THEN append(a1, RuntimePodman) ELSE a1
    IN  a2

---------------------------------------------------------------------------
(* The probes a call starts, in the order it starts them: a Ping through a *)
(* client on a host, or a subprocess, each under its own timeout           *)

ProbeTimeout == 5
MachineInspectTimeout == 3

PodmanInfoCommand == <<"podman", "info", "--format", "json">>
PodmanMachineInspectCommand ==
    <<"podman", "machine", "inspect", "--format",
      "{{.ConnectionInfo.PodmanSocket.Path}}">>

NoProbe == [kind |-> "none", target |-> <<>>, timeout |-> 0]

PingProbe(host) == [kind |-> "ping", target |-> host, timeout |-> ProbeTimeout]

ExecProbe(command, timeout) == [kind |-> "exec", target |-> command, timeout |-> timeout]

verifySocketConnectionProbes(socket) == <<PingProbe(HostOf(socket.Path))>>

verifyDockerProbes(w) ==
    IF LookPath(w, "docker") /\ socketLocation(w).found
    THEN <<PingProbe(socketLocation(w).socket)>>
    ELSE <<>>

verifyPodmanProbes(w) ==
    IF LookPath(w, "podman")
    THEN <<ExecProbe(PodmanInfoCommand, ProbeTimeout)>>
    ELSE <<>>

verifyRuntimeProbes(w, runtime) ==
    CASE runtime = RuntimeDocker -> verifyDockerProbes(w)
      [] runtime = RuntimePodman -> verifyPodmanProbes(w)
      [] OTHER -> <<>>

RECURSIVE firstVerifiedProbes(_, _, _)
firstVerifiedProbes(w, sockets, k) ==
    IF k > Len(sockets) THEN <<>>
    ELSE verifySocketConnectionProbes(sockets[k])
           \o (IF verifySocketConnection(w, sockets[k]) THEN <<>>
               ELSE firstVerifiedProbes(w, sockets, k + 1))

autoDetectRuntimeProbes(d, e, w) ==
    firstVerifiedProbes(w, detectRuntimeSockets(d, e, w), 1)

DetectAvailableRuntimeProbes(d, e, w) ==
    LET hint == checkEnvironmentHints(e)
        preferred == IF d.preferredRuntime # RuntimeUnknown
                     THEN verifyRuntimeProbes(w, d.preferredRuntime) ELSE <<>>
        hinted == IF hint # RuntimeUnknown THEN verifyRuntimeProbes(w, hint) ELSE <<>>
    IN  IF d.preferredRuntime # RuntimeUnknown /\ verifyRuntime(w, d.preferredRuntime)
            THEN preferred
        ELSE IF hint # RuntimeUnknown /\ verifyRuntime(w, hint)
            THEN preferred \o hinted
        ELSE preferred \o hinted \o autoDetectRuntimeProbes(d, e, w)

getSelectedRuntimeProbes(ov, d, e, w) ==
    IF ov # RuntimeUnknown THEN <<>>
    ELSE DetectAvailableRuntimeProbes(configureDetectorFromEnvironment(d, e), e, w)

availableRuntimesProbes(w) == verifyDockerProbes(w) \o verifyPodmanProbes(w)

(* os.Stat succeeding on a path *)
Stat(w, path) == path \in w.sockets

NoValue == <<"<no value>">>

NotFound == [socket |-> Unset, found |-> FALSE]

(* getPodmanMachineSocket without the os.Stat of runtime_detector.go:339 *)
getPodmanMachineSocketNoStat(w) ==
    LET socketPath == IF LookPath(w, "podman") THEN w.machineSocket ELSE Unset IN
    IF socketPath = Unset \/ socketPath = NoValue THEN NotFound
    ELSE [socket |-> socketPath, found |-> TRUE]

getPodmanMachineSocket(w) ==
    LET socketPath == IF LookPath(w, "podman") THEN w.machineSocket ELSE Unset IN
    IF socketPath = Unset \/ socketPath = NoValue THEN NotFound
    ELSE IF ~Stat(w, socketPath) THEN NotFound
    ELSE [socket |-> socketPath, found |-> TRUE]

(* exec.CommandContext starts a process only for a binary it can resolve *)
getPodmanMachineSocketProbes(w) ==
    IF LookPath(w, "podman")
    THEN <<ExecProbe(PodmanMachineInspectCommand, MachineInspectTimeout)>>
    ELSE <<>>

(* runtime_detector.go:362-372: the first candidate of the runtime that    *)
(* answers, with the probes made on the way                                *)
RECURSIVE firstAnswering(_, _, _, _)
firstAnswering(w, sockets, runtime, k) ==
    IF k > Len(sockets) THEN [socket |-> Unset, found |-> FALSE, probes |-> <<>>]
    ELSE IF sockets[k].Runtime # runtime THEN firstAnswering(w, sockets, runtime, k + 1)
    ELSE IF verifySocketConnection(w, sockets[k])
        THEN [socket |-> HostOf(sockets[k].Path), found |-> TRUE,
              probes |-> verifySocketConnectionProbes(sockets[k])]
    ELSE LET rest == firstAnswering(w, sockets, runtime, k + 1) IN
         [rest EXCEPT !.probes = verifySocketConnectionProbes(sockets[k]) \o @]

GetSocketForRuntime(d, e, w, runtime) ==
    IF d.customSocket # Unset
    THEN [socket |-> d.customSocket, found |-> TRUE, probes |-> <<>>]
    ELSE LET machine == IF runtime = RuntimePodman
                        THEN getPodmanMachineSocket(w) ELSE NotFound
             inspected == IF runtime = RuntimePodman
                          THEN getPodmanMachineSocketProbes(w) ELSE <<>>
             scan == firstAnswering(w, detectRuntimeSockets(d, e, w), runtime, 1)
         IN  IF machine.found
             THEN [socket |-> UnixScheme \o machine.socket, found |-> TRUE,
                   probes |-> inspected]
             ELSE [scan EXCEPT !.probes = inspected \o @]

---------------------------------------------------------------------------
(* Values the operations are called with *)

TestInput == [Image |-> "test:latest", Name |-> "test-container"]

cliSocket == <<"/", "c", "/", "p", "o", "d", "m", "a", "n">>
envSocket == <<"/", "e", "/", "D", "o", "c", "k", "e", "r">>

DOCKER == <<"D", "O", "C", "K", "E", "R">>
Podman == <<"P", "o", "d", "m", "a", "n">>
banana == <<"b", "a", "n", "a", "n", "a">>
testHost == <<"unix://", "/test">>

homeDir == <<"/home/u">>
runtimeDir == <<"/run/user/1000">>

dockerHostDefault == UnixScheme \o <<"/var/run/docker.sock">>

(* An environment with none of the four variables set *)
BareEnv ==
    [v \in EnvVars |->
        CASE v = HOME -> homeDir
          [] v = XDG_RUNTIME_DIR -> runtimeDir
          [] OTHER -> Unset]

TablePath(k) == ExpandEnv(BareEnv, candidates[k].Path)

(* The hosts in which the table entries idx may exist and the sockets       *)
(* customs may answer                                                       *)
Hosts(idx, customs, dockerSockets) ==
    { w \in [binaries : SUBSET {"docker", "podman"},
             sockets : SUBSET {TablePath(k) : k \in idx},
             live : SUBSET ({HostOf(TablePath(k)) : k \in idx}
                            \cup {HostOf(c) : c \in customs}),
             dockerSocket : dockerSockets,
             podmanInfo : BOOLEAN,
             machineSocket : {Unset}] :
        /\ \A k \in idx : HostOf(TablePath(k)) \in w.live => TablePath(k) \in w.sockets
        /\ w.podmanInfo => "podman" \in w.binaries }

---------------------------------------------------------------------------
(* Operations.  ret holds what the last operation returned; an operation   *)
(* that returns nothing leaves NoCall.                                      *)

NoCall == [op |-> "none"]

(* The goroutines that call into the factory, and where each of them is in *)
(* getSelectedRuntime.  seen is what the check of factory.go:80 read;      *)
(* during collects the overrides in effect while the call is running;      *)
(* probe is the probe the call is blocked on, candidate the backend it     *)
(* would prove, sockets the candidates not tried yet, started the number   *)
(* of probes started so far, outcome how the last probe ended; cancelled   *)
(* says the caller's context has been cancelled.                           *)
Workers == {"w1", "w2"}

IdleCall ==
    [pc |-> "idle", op |-> "none", seen |-> RuntimeUnknown,
     runtime |-> RuntimeUnknown, detection |-> NoDetection, during |-> {},
     probe |-> NoProbe, candidate |-> RuntimeUnknown, sockets |-> <<>>,
     started |-> 0, outcome |-> "none", cancelled |-> FALSE]

NoCalls == [w \in Workers |-> IdleCall]

InEffect(cs, runtime) ==
    [w \in Workers |->
        IF cs[w].pc = "idle" THEN cs[w]
        ELSE [cs[w] EXCEPT !.during = @ \cup {runtime}]]

SetRuntimeOverride(runtime) ==
    /\ runtimeOverride' = runtime
    /\ ret' = NoCall
    /\ calls' = InEffect(calls, runtime)
    /\ UNCHANGED <<rd, env, world, handle>>

ClearRuntimeOverride ==
    /\ runtimeOverride' = RuntimeUnknown
    /\ ret' = NoCall
    /\ calls' = InEffect(calls, RuntimeUnknown)
    /\ UNCHANGED <<rd, env, world, handle>>

SetRuntimePreference(runtime) ==
    /\ rd' = SetPreferredRuntime(rd, runtime)
    /\ ret' = NoCall
    /\ UNCHANGED <<runtimeOverride, env, world, handle, calls>>

SetCustomSocket(socket) ==
    /\ rd' = DetectorSetCustomSocket(rd, socket)
    /\ ret' = NoCall
    /\ UNCHANGED <<runtimeOverride, env, world, handle, calls>>

Setenv(name, value) ==
    /\ env' = [env EXCEPT ![name] = value]
    /\ ret' = NoCall
    /\ UNCHANGED <<runtimeOverride, rd, world, handle, calls>>

Unsetenv(name) ==
    /\ env[name] # Unset
    /\ env' = [env EXCEPT ![name] = Unset]
    /\ ret' = NoCall
    /\ UNCHANGED <<runtimeOverride, rd, world, handle, calls>>

GetCurrentRuntime ==
    LET sel == getSelectedRuntime(runtimeOverride, rd, env, world) IN
    /\ rd' = sel.rd
    /\ ret' = [op |-> "GetCurrentRuntime", runtime |-> sel.runtime,
               detection |-> sel.detection,
               probes |-> getSelectedRuntimeProbes(runtimeOverride, rd, env, world)]
    /\ UNCHANGED <<runtimeOverride, env, world, handle, calls>>

NewContainer(input) ==
    LET sel == getSelectedRuntime(runtimeOverride, rd, env, world) IN
    /\ rd' = sel.rd
    /\ ret' = [op |-> "NewContainer", runtime |-> sel.runtime,
               detection |-> sel.detection,
               probes |-> getSelectedRuntimeProbes(runtimeOverride, rd, env, world),
               handle |-> containerFor(sel.runtime, input)]
    /\ UNCHANGED <<runtimeOverride, env, world, handle, calls>>

---------------------------------------------------------------------------
(* The factory over a process lifetime: configuration from the CLI, the     *)
(* environment changing, the test override, and resolution calls            *)

RuntimeValues == {docker, podman, DOCKER}

FactoryHosts == Hosts({2, 4}, {cliSocket}, {dockerHostDefault})

Init ==
    /\ runtimeOverride = RuntimeUnknown
    /\ rd = NewRuntimeDetector
    /\ env = BareEnv
    /\ world \in { w \in FactoryHosts :
                      /\ w.sockets = {TablePath(k) : k \in {2, 4}}
                      /\ w.podmanInfo = ("podman" \in w.binaries) }
    /\ handle = Nil
    /\ calls = NoCalls
    /\ ret = NoCall

Next ==
    \/ \E r \in ContainerRuntime : SetRuntimeOverride(r)
    \/ ClearRuntimeOverride
    \/ \E r \in ContainerRuntime : SetRuntimePreference(r)
    \/ SetCustomSocket(cliSocket)
    \/ \E v \in RuntimeValues : Setenv(ACT_CONTAINER_RUNTIME, v)
    \/ Setenv(ACT_CONTAINER_SOCKET, envSocket)
    \/ Setenv(PODMAN_HOST, testHost)
    \/ Setenv(DOCKER_HOST, testHost)
    \/ \E v \in HintVars \cup {ACT_CONTAINER_SOCKET} : Unsetenv(v)
    \/ GetCurrentRuntime
    \/ NewContainer(TestInput)

Spec == Init /\ [][Next]_vars

---------------------------------------------------------------------------
(* The adapter variants behind a handle *)

IsPodmanAdapter(h) == h.adapter = "containerReference" /\ h.runtime = RuntimePodman
IsDockerAdapter(h) == h.adapter = "containerReference" /\ h.runtime = RuntimeDocker
IsNullAdapter(h) == h.adapter = "nullContainer"

ResolutionOps == {"GetCurrentRuntime", "NewContainer"}

NothingUsable(w) == w.binaries = {} /\ w.live = {}

(* C1: NewContainer always returns a present handle: the Podman adapter    *)
(* exactly when resolution yields Podman, the Docker adapter exactly when  *)
(* it yields Docker, the Null Adapter exactly when it yields Unknown.      *)
C1_NewContainerHandle ==
    ret.op = "NewContainer" =>
        /\ ret.handle # Nil
        /\ IsPodmanAdapter(ret.handle) <=> ret.runtime = RuntimePodman
        /\ IsDockerAdapter(ret.handle) <=> ret.runtime = RuntimeDocker
        /\ IsNullAdapter(ret.handle) <=> ret.runtime = RuntimeUnknown
        /\ ret.handle.input = TestInput

(* NewContainer returned the Null Adapter on a host where nothing is usable *)
C1_Witness ==
    /\ ret.op = "NewContainer"
    /\ runtimeOverride = RuntimeUnknown
    /\ NothingUsable(world)
    /\ ret.runtime = RuntimeUnknown
    /\ IsNullAdapter(ret.handle)

(* C2: while the override is not Unknown every resolution call returns it, *)
(* whatever the environment, the configuration and the host say; with the  *)
(* override cleared, a resolution call returns what a detection it ran     *)
(* found: a runtime that verified, one whose socket answered, or Unknown.  *)
C2_OverrideWins ==
    ret.op \in ResolutionOps =>
        /\ runtimeOverride # RuntimeUnknown =>
              ret.runtime = runtimeOverride /\ ret.detection = NoDetection
        /\ runtimeOverride = RuntimeUnknown =>
              /\ ret.detection \in {LogPreferred, LogEnvironment, LogAuto, LogNone}
              /\ ret.detection = LogNone <=> ret.runtime = RuntimeUnknown
              /\ ret.detection \in {LogPreferred, LogEnvironment} =>
                    verifyRuntime(world, ret.runtime)
              /\ ret.detection = LogAuto => world.live # {}

(* The override answered Podman although Podman does not verify and both   *)
(* the environment and the configured preference name Docker               *)
C2_Witness ==
    /\ ret.op = "GetCurrentRuntime"
    /\ runtimeOverride = RuntimePodman
    /\ ret.runtime = RuntimePodman
    /\ ~verifyPodman(world)
    /\ verifyDocker(world)
    /\ Getenv(env, ACT_CONTAINER_RUNTIME) = docker
    /\ rd.preferredRuntime = RuntimeDocker

---------------------------------------------------------------------------
(* The environment-hints phase on its own, over every environment *)

HostValues == {Unset, testHost, UnixScheme \o <<"/run/podman/podman.sock">>}

CheckEnvironmentHints ==
    /\ ret' = [op |-> "checkEnvironmentHints", runtime |-> checkEnvironmentHints(env)]
    /\ UNCHANGED <<runtimeOverride, rd, env, world, handle, calls>>

NoHost ==
    [binaries |-> {}, sockets |-> {}, live |-> {}, dockerSocket |-> Unset,
     podmanInfo |-> FALSE, machineSocket |-> Unset]

InitHints ==
    /\ runtimeOverride = RuntimeUnknown
    /\ rd = NewRuntimeDetector
    /\ \E a \in {Unset, docker, podman, DOCKER, Podman, banana} :
       \E s \in {Unset, envSocket} :
       \E p \in HostValues :
       \E h \in HostValues :
          env = [BareEnv EXCEPT ![ACT_CONTAINER_RUNTIME] = a,
                                ![ACT_CONTAINER_SOCKET] = s,
                                ![PODMAN_HOST] = p,
                                ![DOCKER_HOST] = h]
    /\ world = NoHost
    /\ handle = Nil
    /\ calls = NoCalls
    /\ ret = NoCall

NextHints == CheckEnvironmentHints

SpecHints == InitHints /\ [][NextHints]_vars

DockerSpellings == {docker, DOCKER}
PodmanSpellings == {podman, Podman}

(* C5: the hint is Docker/Podman if ACT_CONTAINER_RUNTIME spells docker/   *)
(* podman in any letter case; otherwise Podman if PODMAN_HOST has a value; *)
(* otherwise Docker if DOCKER_HOST has a value; otherwise Unknown.         *)
C5_EnvironmentHints ==
    ret.op = "checkEnvironmentHints" =>
        ret.runtime =
            (CASE env[ACT_CONTAINER_RUNTIME] \in DockerSpellings -> RuntimeDocker
               [] env[ACT_CONTAINER_RUNTIME] \in PodmanSpellings -> RuntimePodman
               [] OTHER ->
                    IF env[PODMAN_HOST] # Unset THEN RuntimePodman
                    ELSE IF env[DOCKER_HOST] # Unset THEN RuntimeDocker
                    ELSE RuntimeUnknown)

(* ACT_CONTAINER_RUNTIME=DOCKER outranked a PODMAN_HOST that is set *)
C5_Witness ==
    /\ ret.op = "checkEnvironmentHints"
    /\ env[ACT_CONTAINER_RUNTIME] = DOCKER
    /\ env[PODMAN_HOST] # Unset
    /\ ret.runtime = RuntimeDocker

---------------------------------------------------------------------------
(* Auto-detection over every subset of the candidate table that exists and *)
(* every subset of it that answers, with nothing configured                *)

AutoDetectRuntime ==
    /\ ret' = [op |-> "autoDetectRuntime",
               sockets |-> detectRuntimeSockets(rd, env, world),
               runtime |-> autoDetectRuntime(rd, env, world),
               probes |-> autoDetectRuntimeProbes(rd, env, world)]
    /\ UNCHANGED <<runtimeOverride, rd, env, world, handle, calls>>

TableIndex == DOMAIN candidates

InitAuto ==
    /\ runtimeOverride = RuntimeUnknown
    /\ rd = NewRuntimeDetector
    /\ env = BareEnv
    /\ \E S \in SUBSET TableIndex :
       \E L \in SUBSET S :
          world = [binaries |-> {"docker", "podman"},
                   sockets |-> {TablePath(k) : k \in S},
                   live |-> {HostOf(TablePath(k)) : k \in L},
                   dockerSocket |-> Unset,
                   podmanInfo |-> FALSE,
                   machineSocket |-> Unset]
    /\ handle = Nil
    /\ calls = NoCalls
    /\ ret = NoCall

NextAuto ==
    \/ AutoDetectRuntime
    \/ GetCurrentRuntime

SpecAuto == InitAuto /\ [][NextAuto]_vars

Existing == {k \in TableIndex : TablePath(k) \in world.sockets}
Answering == {k \in Existing : HostOf(TablePath(k)) \in world.live}

(* The table row a surviving candidate came from *)
RowOf(socket) == CHOOSE k \in TableIndex : TablePath(k) = socket.Path

(* The answering row that wins: highest score, the earlier row on a tie *)
Best ==
    CHOOSE k \in Answering :
        \A m \in Answering :
            \/ candidates[k].Score > candidates[m].Score
            \/ candidates[k].Score = candidates[m].Score /\ k <= m

(* C6: the surviving candidates are the existing rows in non-increasing    *)
(* score order, equal scores in table order, and auto-detection returns    *)
(* the backend of the first of them that answers, Unknown if none does.    *)
C6_ScoreOrder ==
    ret.op = "autoDetectRuntime" =>
        /\ Len(ret.sockets) = Cardinality(Existing)
        /\ {RowOf(ret.sockets[i]) : i \in DOMAIN ret.sockets} = Existing
        /\ \A i \in DOMAIN ret.sockets :
              /\ ret.sockets[i].Score = candidates[RowOf(ret.sockets[i])].Score
              /\ ret.sockets[i].Runtime = candidates[RowOf(ret.sockets[i])].Runtime
        /\ \A i, j \in DOMAIN ret.sockets :
              i < j =>
                  \/ ret.sockets[i].Score > ret.sockets[j].Score
                  \/ /\ ret.sockets[i].Score = ret.sockets[j].Score
                     /\ RowOf(ret.sockets[i]) < RowOf(ret.sockets[j])
        /\ ret.runtime =
              (IF Answering = {} THEN RuntimeUnknown ELSE candidates[Best].Runtime)

(* Both rows scored 85 exist with a Docker row listed between them, the    *)
(* higher-scored rows do not answer, and the first of the two won          *)
C6_Witness ==
    /\ ret.op = "autoDetectRuntime"
    /\ {3, 4, 9} \subseteq Existing
    /\ {3, 4, 9} \subseteq Answering
    /\ 2 \in Existing /\ 2 \notin Answering
    /\ 1 \notin Existing
    /\ Best = 3
    /\ ret.runtime = RuntimePodman

PodmanRows == {k \in TableIndex : candidates[k].Runtime = RuntimePodman}
DockerRows == {k \in TableIndex : candidates[k].Runtime = RuntimeDocker}

---------------------------------------------------------------------------
(* One detection, over every preference, hint and host *)

DetectAvailableRuntimeCall ==
    LET detected == DetectAvailableRuntime(rd, env, world) IN
    /\ ret' = [op |-> "DetectAvailableRuntime", runtime |-> detected.runtime,
               detection |-> detected.log,
               probes |-> DetectAvailableRuntimeProbes(rd, env, world)]
    /\ UNCHANGED <<runtimeOverride, rd, env, world, handle, calls>>

DetectHosts == Hosts({2, 4}, {cliSocket}, {Unset, dockerHostDefault})

InitDetect ==
    /\ runtimeOverride = RuntimeUnknown
    /\ \E r \in ContainerRuntime :
       \E c \in {Unset, cliSocket} :
          rd = [preferredRuntime |-> r, customSocket |-> c]
    /\ \E a \in {Unset, docker, Podman, banana} :
       \E p \in {Unset, testHost} :
       \E h \in {Unset, testHost} :
          env = [BareEnv EXCEPT ![ACT_CONTAINER_RUNTIME] = a,
                                ![PODMAN_HOST] = p,
                                ![DOCKER_HOST] = h]
    /\ world \in DetectHosts
    /\ handle = Nil
    /\ calls = NoCalls
    /\ ret = NoCall

NextDetect == DetectAvailableRuntimeCall

SpecDetect == InitDetect /\ [][NextDetect]_vars

PreferenceVerifies ==
    rd.preferredRuntime # RuntimeUnknown /\ verifyRuntime(world, rd.preferredRuntime)

HintVerifies ==
    LET hint == checkEnvironmentHints(env) IN
    hint # RuntimeUnknown /\ verifyRuntime(world, hint)

(* C4: DetectAvailableRuntime returns the preferred backend if it is set   *)
(* and verifies; otherwise the environment hint if there is one and it     *)
(* verifies; otherwise what auto-detection finds, possibly Unknown.        *)
C4_ResolutionOrder ==
    ret.op = "DetectAvailableRuntime" =>
        /\ PreferenceVerifies =>
              ret.runtime = rd.preferredRuntime /\ ret.detection = LogPreferred
        /\ ~PreferenceVerifies /\ HintVerifies =>
              ret.runtime = checkEnvironmentHints(env) /\ ret.detection = LogEnvironment
        /\ ~PreferenceVerifies /\ ~HintVerifies =>
              /\ ret.runtime = autoDetectRuntime(rd, env, world)
              /\ ret.detection \in {LogAuto, LogNone}

(* The preference is Docker and verifies while the hint names Podman,      *)
(* Podman verifies and only the Podman socket answers: Docker is returned  *)
C4_Witness ==
    /\ ret.op = "DetectAvailableRuntime"
    /\ rd.preferredRuntime = RuntimeDocker
    /\ rd.customSocket = Unset
    /\ verifyDocker(world)
    /\ checkEnvironmentHints(env) = RuntimePodman
    /\ verifyPodman(world)
    /\ autoDetectRuntime(rd, env, world) = RuntimePodman
    /\ ret.runtime = RuntimeDocker

---------------------------------------------------------------------------
(* The calls that verify a backend themselves: force-select and the list   *)
(* of available runtimes                                                   *)

(* NewContainerWithRuntime giving way to the override when one is set *)
NewContainerWithRuntimeOverridden(input, runtime) ==
    LET forced == IF runtimeOverride # RuntimeUnknown THEN runtimeOverride ELSE runtime
        made == containerWithRuntime(world, forced, input)
    IN  /\ ret' = [op |-> "NewContainerWithRuntime", requested |-> runtime,
                   verified |-> made.verified, handle |-> made.handle,
                   probes |-> verifyRuntimeProbes(world, forced)]
        /\ UNCHANGED <<runtimeOverride, rd, env, world, handle, calls>>

NewContainerWithRuntime(input, runtime) ==
    LET made == containerWithRuntime(world, runtime, input) IN
    /\ ret' = [op |-> "NewContainerWithRuntime", requested |-> runtime,
               verified |-> made.verified, handle |-> made.handle,
               probes |-> verifyRuntimeProbes(world, runtime)]
    /\ UNCHANGED <<runtimeOverride, rd, env, world, handle, calls>>

GetAvailableRuntimes ==
    /\ ret' = [op |-> "GetAvailableRuntimes", available |-> availableRuntimes(world),
               probes |-> availableRuntimesProbes(world)]
    /\ UNCHANGED <<runtimeOverride, rd, env, world, handle, calls>>

ForceHosts == Hosts({4}, {}, {Unset, dockerHostDefault})

InitForce ==
    /\ runtimeOverride \in ContainerRuntime
    /\ \E r \in ContainerRuntime : rd = [preferredRuntime |-> r, customSocket |-> Unset]
    /\ \E a \in {Unset, docker, podman} :
          env = [BareEnv EXCEPT ![ACT_CONTAINER_RUNTIME] = a]
    /\ world \in ForceHosts
    /\ handle = Nil
    /\ calls = NoCalls
    /\ ret = NoCall

NextForce ==
    \/ \E r \in ContainerRuntime : NewContainerWithRuntime(TestInput, r)
    \/ GetAvailableRuntimes

SpecForce == InitForce /\ [][NextForce]_vars

(* What section 4.1.1 asks of a verified backend, as far as the code       *)
(* checks it: the binary resolves and the live check succeeds              *)
HostVerifies(w, b) ==
    \/ /\ b = RuntimeDocker
       /\ "docker" \in w.binaries
       /\ w.dockerSocket # Unset
       /\ w.dockerSocket \in w.live
    \/ /\ b = RuntimePodman
       /\ "podman" \in w.binaries
       /\ w.podmanInfo

(* C3: NewContainerWithRuntime(input, b) returns the real adapter of b     *)
(* only if b verified in that call; if it did not, or b is Unknown, it     *)
(* returns the Null Adapter; it never returns another backend's adapter.   *)
C3_ForceSelectVerifies ==
    ret.op = "NewContainerWithRuntime" =>
        /\ ret.handle # Nil
        /\ ret.verified <=> HostVerifies(world, ret.requested)
        /\ ~IsNullAdapter(ret.handle) =>
              /\ ret.verified
              /\ ret.requested # RuntimeUnknown
              /\ ret.handle.adapter = "containerReference"
              /\ ret.handle.runtime = ret.requested
        /\ (~ret.verified \/ ret.requested = RuntimeUnknown) => IsNullAdapter(ret.handle)
        /\ (ret.verified /\ ret.requested # RuntimeUnknown) => ~IsNullAdapter(ret.handle)

(* Docker was requested, its binary resolves and a socket is found, but    *)
(* the ping fails: the Null Adapter came back                              *)
C3_Witness ==
    /\ ret.op = "NewContainerWithRuntime"
    /\ ret.requested = RuntimeDocker
    /\ "docker" \in world.binaries
    /\ world.dockerSocket # Unset
    /\ world.dockerSocket \notin world.live
    /\ IsNullAdapter(ret.handle)

(* C8: GetAvailableRuntimes never returns a nil collection; its elements   *)
(* are only Docker and Podman.                                             *)
C8_NeverNil ==
    ret.op = "GetAvailableRuntimes" =>
        /\ ~ret.available.isNil
        /\ \A i \in DOMAIN ret.available.elems :
              ret.available.elems[i] \in {RuntimeDocker, RuntimePodman}

---------------------------------------------------------------------------
(* The diagnostic report, runtime_detector.go:378-417.  The text is cut    *)
(* into chunks so that the words the callers look for are chunks.          *)

Check == "\\u2713"
Cross == "\\u2717"

GetHelpfulErrorMessage(w) ==
    LET dockerAvailable == verifyDocker(w)
        dockerSocket == socketLocation(w).socket
        dockerSocketFound == socketLocation(w).found
        dockerStatus == IF dockerAvailable THEN Check ELSE Cross
        podmanAvailable == verifyPodman(w)
        podmanStatus == IF podmanAvailable THEN Check ELSE Cross
    IN  <<"No container runtime detected", "\n\n">>
        \o <<"Act requires either ", "Docker", " or ", "Podman",
             " to run GitHub Actions locally.", "\n\n">>
        \o <<"Install options:", "\n">>
        \o <<"  ", "Docker", ":  https://docs.docker.com/get-docker/", "\n">>
        \o <<"  ", "Podman", ":  https://podman.io/getting-started/installation", "\n\n">>
        \o <<"Current detection status:", "\n">>
        \o (IF dockerSocketFound
            THEN <<"  ", dockerStatus, " ", "Docker", " (socket: ">>
                 \o dockerSocket \o <<")", "\n">>
            ELSE <<"  ", Cross, " ", "Docker",
                   " daemon not running (no socket found)", "\n">>)
        \o <<"  ", podmanStatus, " ", "Podman", " (binary check)", "\n">>
        \o <<"\n", "Override detection with:", "\n">>
        \o <<"  ", "act --container-runtime", "=docker", "\n">>
        \o <<"  ", "act --container-runtime", "=podman", "\n">>
        \o <<"  ", "act --container-socket", "=/custom/socket", "\n">>

(* factory.go:140-142 *)
GetRuntimeDetectionError(w) == GetHelpfulErrorMessage(w)

---------------------------------------------------------------------------
(* The Null Adapter, null_container.go *)

NilError == [isNil |-> TRUE, msg |-> <<>>]

Errorf(msg) == [isNil |-> FALSE, msg |-> msg]

(* An executor of the Null Adapter that forgets the report *)
nullExecutorErrorBare(w) == Errorf(<<"no container runtime available">>)

(* The body every failing method shares, null_container.go:27 *)
nullExecutorError(w) ==
    Errorf(<<"no container runtime available", "\n\n">> \o GetRuntimeDetectionError(w))

HealthUnHealthy == "HealthUnHealthy"

(* LinuxContainerEnvironmentExtensions.JoinPathVariable: the segments      *)
(* joined with a colon                                                     *)
RECURSIVE JoinPathVariable(_)
JoinPathVariable(paths) ==
    IF paths = <<>> THEN <<>>
    ELSE IF Len(paths) = 1 THEN paths[1]
    ELSE paths[1] \o <<":">> \o JoinPathVariable(Tail(paths))

nullRunnerContext ==
    [os |-> "linux", arch |-> "x64", temp |-> "/tmp",
     tool_cache |-> "/opt/hostedtoolcache",
     action_path |-> "/github/workspace",
     workspace |-> "/github/workspace"]

(* A method of the Null Adapter, run to its result *)
NullCall(method, value, err) ==
    /\ handle.adapter = "nullContainer"
    /\ ret' = [op |-> method, value |-> value, err |-> err]
    /\ UNCHANGED <<runtimeOverride, rd, env, world, handle, calls>>

Capabilities == {<<>>, <<"SYS_ADMIN">>}
Paths == {<<"/src">>, <<"/github", "/workspace">>}
Writers == {"os.Stdout", "os.Stderr"}

NullCreate ==
    \E capAdd \in Capabilities : \E capDrop \in Capabilities :
        NullCall("Create", Nil, nullExecutorError(world))

NullCopy ==
    \E destPath \in Paths : NullCall("Copy", Nil, nullExecutorError(world))

NullCopyTarStream ==
    \E destPath \in Paths : NullCall("CopyTarStream", Nil, nullExecutorError(world))

NullCopyDir ==
    \E destPath \in Paths : \E useGitIgnore \in BOOLEAN :
        NullCall("CopyDir", Nil, nullExecutorError(world))

NullGetContainerArchive ==
    \E srcPath \in Paths : NullCall("GetContainerArchive", Nil, nullExecutorError(world))

NullPull ==
    \E forcePull \in BOOLEAN : NullCall("Pull", Nil, nullExecutorError(world))

NullStart ==
    \E attach \in BOOLEAN : NullCall("Start", Nil, nullExecutorError(world))

NullExec ==
    \E workdir \in Paths : NullCall("Exec", Nil, nullExecutorError(world))

NullUpdateFromEnv ==
    \E srcPath \in Paths : NullCall("UpdateFromEnv", Nil, nullExecutorError(world))

NullUpdateFromImageEnv == NullCall("UpdateFromImageEnv", Nil, nullExecutorError(world))

NullRemove == NullCall("Remove", Nil, nullExecutorError(world))

NullClose == NullCall("Close", Nil, nullExecutorError(world))

NullReplaceLogWriter ==
    \E stdout \in Writers : \E stderr \in Writers :
        /\ handle.adapter = "nullContainer"
        /\ ret' = [op |-> "ReplaceLogWriter", given |-> <<stdout, stderr>>,
                   value |-> <<stdout, stderr>>, err |-> NilError]
        /\ UNCHANGED <<runtimeOverride, rd, env, world, handle, calls>>

NullGetHealth == NullCall("GetHealth", HealthUnHealthy, NilError)

NullToContainerPath ==
    \E path \in Paths :
        /\ handle.adapter = "nullContainer"
        /\ ret' = [op |-> "ToContainerPath", given |-> path, value |-> path,
                   err |-> NilError]
        /\ UNCHANGED <<runtimeOverride, rd, env, world, handle, calls>>

NullGetActPath == NullCall("GetActPath", <<"/opt/act">>, NilError)

NullGetPathVariableName == NullCall("GetPathVariableName", <<"PATH">>, NilError)

NullDefaultPathVariable ==
    NullCall("DefaultPathVariable",
             <<"/usr/local/sbin", ":", "/usr/local/bin", ":", "/usr/sbin", ":",
               "/usr/bin", ":", "/sbin", ":", "/bin">>,
             NilError)

NullJoinPathVariable ==
    \E paths \in {<<>>, <<<<"/opt/act">>>>, <<<<"/usr/bin">>, <<"/bin">>>>} :
        /\ handle.adapter = "nullContainer"
        /\ ret' = [op |-> "JoinPathVariable", given |-> paths,
                   value |-> JoinPathVariable(paths), err |-> NilError]
        /\ UNCHANGED <<runtimeOverride, rd, env, world, handle, calls>>

NullGetRunnerContext == NullCall("GetRunnerContext", nullRunnerContext, NilError)

NullIsEnvironmentCaseInsensitive ==
    NullCall("IsEnvironmentCaseInsensitive", FALSE, NilError)

InitNull ==
    /\ runtimeOverride = RuntimeUnknown
    /\ rd = NewRuntimeDetector
    /\ env = BareEnv
    /\ world \in ForceHosts
    /\ handle = newNullContainer(TestInput)
    /\ calls = NoCalls
    /\ ret = NoCall

NextNull ==
    \/ NullCreate
    \/ NullCopy
    \/ NullCopyTarStream
    \/ NullCopyDir
    \/ NullGetContainerArchive
    \/ NullPull
    \/ NullStart
    \/ NullExec
    \/ NullUpdateFromEnv
    \/ NullUpdateFromImageEnv
    \/ NullRemove
    \/ NullClose
    \/ NullReplaceLogWriter
    \/ NullGetHealth
    \/ NullToContainerPath
    \/ NullGetActPath
    \/ NullGetPathVariableName
    \/ NullDefaultPathVariable
    \/ NullJoinPathVariable
    \/ NullGetRunnerContext
    \/ NullIsEnvironmentCaseInsensitive

SpecNull == InitNull /\ [][NextNull]_vars

MutatingMethods ==
    {"Create", "Copy", "CopyDir", "CopyTarStream", "GetContainerArchive", "Pull",
     "Start", "Exec", "UpdateFromEnv", "UpdateFromImageEnv"}

QueryMethods ==
    {"ToContainerPath", "GetActPath", "GetPathVariableName", "DefaultPathVariable",
     "JoinPathVariable", "GetRunnerContext", "IsEnvironmentCaseInsensitive"}

(* C9: on the Null Adapter every mutating operation fails with a non-empty *)
(* "no container runtime available" error that carries the diagnostic      *)
(* report naming Docker and Podman; every query operation returns its      *)
(* Linux-like default without error; GetHealth is unhealthy;               *)
(* ReplaceLogWriter returns the sinks it was given.                        *)
C9_NullAdapter ==
    /\ ret.op \in MutatingMethods =>
          /\ ~ret.err.isNil
          /\ Len(ret.err.msg) > 0
          /\ HasPrefix(ret.err.msg, <<"no container runtime available">>)
          /\ Contains(ret.err.msg, <<"No container runtime detected">>)
          /\ Contains(ret.err.msg, <<"Docker", ":  https://docs.docker.com/get-docker/">>)
          /\ Contains(ret.err.msg,
                      <<"Podman", ":  https://podman.io/getting-started/installation">>)
          /\ Contains(ret.err.msg, <<"Current detection status:">>)
    /\ ret.op \in QueryMethods => ret.err.isNil
    /\ ret.op = "ToContainerPath" => ret.value = ret.given
    /\ ret.op = "GetActPath" => ret.value = <<"/opt/act">>
    /\ ret.op = "GetPathVariableName" => ret.value = <<"PATH">>
    /\ ret.op = "DefaultPathVariable" =>
          /\ ret.value[1] = "/usr/local/sbin"
          /\ ret.value[Len(ret.value)] = "/bin"
          /\ \A i \in DOMAIN ret.value : i % 2 = 0 => ret.value[i] = ":"
    /\ ret.op = "GetRunnerContext" => ret.value.os = "linux" /\ ret.value.temp = "/tmp"
    /\ ret.op = "IsEnvironmentCaseInsensitive" => ret.value = FALSE
    /\ ret.op = "GetHealth" => ret.value = HealthUnHealthy
    /\ ret.op = "ReplaceLogWriter" => ret.value = ret.given

(* Pull on the Null Adapter failed with the report on a host where Docker  *)
(* would verify                                                            *)
C9_Witness ==
    /\ ret.op = "Pull"
    /\ IsNullAdapter(handle)
    /\ verifyDocker(world)
    /\ ~ret.err.isNil
    /\ Contains(ret.err.msg, <<Check, " ", "Docker">>)

---------------------------------------------------------------------------
(* The environment changing between resolution calls, with nothing set by  *)
(* the CLI and no override                                                 *)

InitEnv == Init

NextEnv ==
    \/ \E v \in RuntimeValues : Setenv(ACT_CONTAINER_RUNTIME, v)
    \/ Setenv(ACT_CONTAINER_SOCKET, envSocket)
    \/ Setenv(PODMAN_HOST, testHost)
    \/ Setenv(DOCKER_HOST, testHost)
    \/ \E v \in HintVars \cup {ACT_CONTAINER_SOCKET} : Unsetenv(v)
    \/ GetCurrentRuntime
    \/ NewContainer(TestInput)

SpecEnv == InitEnv /\ [][NextEnv]_vars

(* What a process started in environment e on host w resolves to *)
FreshResolution(e, w) ==
    getSelectedRuntime(RuntimeUnknown, NewRuntimeDetector, e, w).runtime

(* C10: once ACT_CONTAINER_RUNTIME and ACT_CONTAINER_SOCKET are unset, a   *)
(* resolution call returns what it returns in a process in which they were *)
(* never set (same other variables, same host).                            *)
C10_EnvNotCached ==
    (/\ ret.op \in ResolutionOps
     /\ env[ACT_CONTAINER_RUNTIME] = Unset
     /\ env[ACT_CONTAINER_SOCKET] = Unset)
        => ret.runtime = FreshResolution(env, world)

---------------------------------------------------------------------------
(* The CLI configuring the detector in a process whose environment does    *)
(* not change: what the detector holds that the environment does not name  *)
(* was set by the CLI                                                      *)

InitCli ==
    /\ runtimeOverride = RuntimeUnknown
    /\ rd = NewRuntimeDetector
    /\ \E a \in {Unset, docker, podman, DOCKER, Podman, banana} :
       \E s \in {Unset, envSocket} :
          env = [BareEnv EXCEPT ![ACT_CONTAINER_RUNTIME] = a,
                                ![ACT_CONTAINER_SOCKET] = s]
    /\ world \in { w \in FactoryHosts :
                      /\ w.sockets = {TablePath(k) : k \in {2, 4}}
                      /\ w.podmanInfo = ("podman" \in w.binaries) }
    /\ handle = Nil
    /\ calls = NoCalls
    /\ ret = NoCall

NextCli ==
    \/ \E r \in ContainerRuntime : SetRuntimePreference(r)
    \/ SetCustomSocket(cliSocket)
    \/ GetCurrentRuntime
    \/ NewContainer(TestInput)

SpecCli == InitCli /\ [][NextCli]_vars

(* The backend ACT_CONTAINER_RUNTIME names, in any letter case *)
NamedByEnv(e) ==
    CASE e[ACT_CONTAINER_RUNTIME] \in DockerSpellings -> RuntimeDocker
      [] e[ACT_CONTAINER_RUNTIME] \in PodmanSpellings -> RuntimePodman
      [] OTHER -> RuntimeUnknown

(* C11: a resolution call made with a CLI preference X while                *)
(* ACT_CONTAINER_RUNTIME names the other backend, or with a CLI socket S    *)
(* while ACT_CONTAINER_SOCKET names another socket, leaves the CLI value   *)
(* in the detector, and returns X if both backends verify.                 *)
C11_CliPrecedence ==
    [][ ret'.op \in ResolutionOps =>
          /\ (/\ rd.preferredRuntime # RuntimeUnknown
              /\ NamedByEnv(env) # RuntimeUnknown
              /\ NamedByEnv(env) # rd.preferredRuntime)
                 => /\ rd'.preferredRuntime = rd.preferredRuntime
                    /\ (HostVerifies(world, RuntimeDocker)
                          /\ HostVerifies(world, RuntimePodman))
                          => ret'.runtime = rd.preferredRuntime
          /\ (/\ rd.customSocket # Unset
              /\ env[ACT_CONTAINER_SOCKET] # Unset
              /\ env[ACT_CONTAINER_SOCKET] # rd.customSocket)
                 => rd'.customSocket = rd.customSocket ]_vars

(* C12: a resolution call leaves in the detector the backend that          *)
(* ACT_CONTAINER_RUNTIME names in any letter case, the preference it had   *)
(* if the variable names none, and the socket of ACT_CONTAINER_SOCKET if   *)
(* that is set.                                                            *)
C12_EnvConfigures ==
    [][ ret'.op \in ResolutionOps =>
          /\ rd'.preferredRuntime =
                (IF NamedByEnv(env) # RuntimeUnknown
                 THEN NamedByEnv(env) ELSE rd.preferredRuntime)
          /\ rd'.customSocket =
                (IF env[ACT_CONTAINER_SOCKET] # Unset
                 THEN env[ACT_CONTAINER_SOCKET] ELSE rd.customSocket) ]_vars

---------------------------------------------------------------------------
(* guessRuntimeFromSocket on its own, over the paths made of a few parts   *)

MaxParts == 3

PathParts ==
    { <<"/">>, podman, Podman, docker, DOCKER,
      <<"p", "o", "d">>, <<"m", "a", "n">>, <<"s", "o", "c", "k">> }

SocketPaths ==
    { Flatten(ps) : ps \in UNION { [1..n -> PathParts] : n \in 0..MaxParts } }

(* The guess as detectRuntimeSockets asks for it, on the configured socket *)
GuessRuntimeFromSocket ==
    /\ ret' = [op |-> "guessRuntimeFromSocket", socket |-> rd.customSocket,
               runtime |-> guessRuntimeFromSocket(rd.customSocket)]
    /\ UNCHANGED <<runtimeOverride, rd, env, world, handle, calls>>

InitGuess ==
    /\ runtimeOverride = RuntimeUnknown
    /\ \E s \in SocketPaths :
          rd = [preferredRuntime |-> RuntimeUnknown, customSocket |-> s]
    /\ env = BareEnv
    /\ world = NoHost
    /\ handle = Nil
    /\ calls = NoCalls
    /\ ret = NoCall

NextGuess == GuessRuntimeFromSocket

SpecGuess == InitGuess /\ [][NextGuess]_vars

UpperOf(c) == UpperLetters[CHOOSE k \in DOMAIN LowerLetters : LowerLetters[k] = c]

(* s spells the lower-case word somewhere, each letter in either case *)
Spells(s, word) ==
    \E i \in 1..Len(s) :
        /\ i + Len(word) - 1 <= Len(s)
        /\ \A j \in 1..Len(word) : s[i + j - 1] \in {word[j], UpperOf(word[j])}

(* C13: the guess is never Unknown: it is Podman exactly for the paths     *)
(* that spell "podman" in some letter case, also when they spell "docker"  *)
(* too, and Docker for every other path, whether it spells "docker" or not.*)
C13_GuessTotal ==
    ret.op = "guessRuntimeFromSocket" =>
        /\ ret.runtime \in {RuntimeDocker, RuntimePodman}
        /\ Spells(ret.socket, podman) => ret.runtime = RuntimePodman
        /\ ~Spells(ret.socket, podman) => ret.runtime = RuntimeDocker

(* A path spelling DOCKER before Podman, neither in lower case, was        *)
(* guessed to be Podman                                                    *)
C13_Witness ==
    /\ ret.op = "guessRuntimeFromSocket"
    /\ ret.socket = DOCKER \o <<"/">> \o Podman
    /\ ret.runtime = RuntimePodman

---------------------------------------------------------------------------
(* The calls that look for sockets, with and without a custom socket, on   *)
(* hosts with and without a Podman machine                                 *)

GetSocketForRuntimeCall(runtime) ==
    LET got == GetSocketForRuntime(rd, env, world, runtime) IN
    /\ ret' = [op |-> "GetSocketForRuntime", requested |-> runtime,
               socket |-> got.socket, found |-> got.found, probes |-> got.probes]
    /\ UNCHANGED <<runtimeOverride, rd, env, world, handle, calls>>

machinePath == <<"/home/u", "/.local/share/containers/podman/machine/qemu/podman.sock">>

SocketHosts ==
    { h \in { [w EXCEPT !.machineSocket = m, !.sockets = @ \cup x] :
                 w \in { v \in FactoryHosts : v.podmanInfo = ("podman" \in v.binaries) },
                 m \in {Unset, NoValue, machinePath},
                 x \in {{}, {machinePath}} } :
        /\ h.machineSocket # Unset => "podman" \in h.binaries
        /\ machinePath \in h.sockets => h.machineSocket = machinePath }

InitSocket ==
    /\ runtimeOverride = RuntimeUnknown
    /\ \E r \in ContainerRuntime :
       \E c \in {Unset, cliSocket} :
          rd = [preferredRuntime |-> r, customSocket |-> c]
    /\ \E h \in {Unset, testHost} :
          env = [BareEnv EXCEPT ![DOCKER_HOST] = h]
    /\ world \in SocketHosts
    /\ handle = Nil
    /\ calls = NoCalls
    /\ ret = NoCall

NextSocket ==
    \/ GetCurrentRuntime
    \/ NewContainer(TestInput)
    \/ AutoDetectRuntime
    \/ \E r \in ContainerRuntime : GetSocketForRuntimeCall(r)

SpecSocket == InitSocket /\ [][NextSocket]_vars

SocketCalls == ResolutionOps \cup {"autoDetectRuntime", "GetSocketForRuntime"}

(* C14: with a custom socket configured, a call pings no host but that     *)
(* socket's and does not ask for the Podman machine socket, the socket     *)
(* GetSocketForRuntime returns is the custom one, and the candidate list   *)
(* is the single entry of the custom socket with the backend guessed for   *)
(* it.                                                                     *)
C14_CustomSocketOnly ==
    rd.customSocket # Unset =>
        /\ ret.op \in SocketCalls =>
              \A i \in DOMAIN ret.probes :
                  /\ ret.probes[i].kind = "ping" =>
                        ret.probes[i].target = HostOf(rd.customSocket)
                  /\ ret.probes[i].target # PodmanMachineInspectCommand
        /\ ret.op = "GetSocketForRuntime" =>
              ret.found /\ ret.socket = rd.customSocket
        /\ ret.op = "autoDetectRuntime" =>
              /\ Len(ret.sockets) = 1
              /\ ret.sockets[1].Path = rd.customSocket
              /\ ret.sockets[1].Runtime =
                    (IF Spells(rd.customSocket, podman)
                     THEN RuntimePodman ELSE RuntimeDocker)

---------------------------------------------------------------------------
(* Verification on hosts where the Podman socket may answer while          *)
(* `podman info` fails, and the other way round                            *)

InitVerify ==
    /\ runtimeOverride = RuntimeUnknown
    /\ rd = NewRuntimeDetector
    /\ env = BareEnv
    /\ world \in DetectHosts
    /\ handle = Nil
    /\ calls = NoCalls
    /\ ret = NoCall

NextVerify ==
    \/ \E r \in ContainerRuntime : NewContainerWithRuntime(TestInput, r)
    \/ GetAvailableRuntimes

SpecVerify == InitVerify /\ [][NextVerify]_vars

(* A Podman socket of the table exists and answers a Ping *)
PodmanSocketAnswers(w) ==
    \E k \in PodmanRows :
        TablePath(k) \in w.sockets /\ HostOf(TablePath(k)) \in w.live

(* C15: Podman verifies whenever its binary is on the search path and      *)
(* either its socket answers a live round-trip or `podman info` exits      *)
(* with status zero in time; so it verifies when the socket answers and    *)
(* `podman info` fails.                                                    *)
C15_PodmanVerifies ==
    (ret.op = "NewContainerWithRuntime" /\ ret.requested = RuntimePodman) =>
        (("podman" \in world.binaries
            /\ (PodmanSocketAnswers(world) \/ world.podmanInfo))
         => ret.verified /\ IsPodmanAdapter(ret.handle))

(* What the host answers to a probe *)
ProbeSucceeds(w, probe) ==
    IF probe.kind = "ping" THEN probe.target \in w.live
    ELSE IF probe.target = PodmanInfoCommand THEN w.podmanInfo
    ELSE getPodmanMachineSocket(w).found

(* The sockets left to try when the preference and the hint are exhausted *)
CandidateHosts ==
    IF rd.customSocket # Unset THEN {HostOf(rd.customSocket)}
    ELSE {HostOf(TablePath(k)) : k \in Existing}

(* C16: a resolution call always returns a backend identity and            *)
(* NewContainer a handle; a failed probe does not end the call while a     *)
(* candidate is left to try, so the call returns Unknown only if none of   *)
(* its probes succeeded and it pinged every candidate; and when every      *)
(* probe fails the call returns Unknown and NewContainer the Null Adapter. *)
C16_ProbeFailureContained ==
    ret.op \in ResolutionOps =>
        LET failed == \A i \in DOMAIN ret.probes : ~ProbeSucceeds(world, ret.probes[i])
            pinged == { ret.probes[i].target :
                          i \in {j \in DOMAIN ret.probes : ret.probes[j].kind = "ping"} }
        IN  /\ ret.runtime \in ContainerRuntime
            /\ ret.op = "NewContainer" => ret.handle # Nil
            /\ failed <=> ret.runtime = RuntimeUnknown
            /\ failed => CandidateHosts \subseteq pinged
            /\ (failed /\ ret.op = "NewContainer") => IsNullAdapter(ret.handle)

(* The hinted Docker did not answer, then neither of the two sockets that  *)
(* exist did, and NewContainer returned the Null Adapter                   *)
C16_Witness ==
    /\ ret.op = "NewContainer"
    /\ rd = NewRuntimeDetector
    /\ env[DOCKER_HOST] # Unset
    /\ "docker" \in world.binaries
    /\ world.live = {}
    /\ Len(ret.probes) = 3
    /\ ret.runtime = RuntimeUnknown
    /\ IsNullAdapter(ret.handle)

---------------------------------------------------------------------------
(* getSelectedRuntime step by step, one goroutine per worker.  Nothing in  *)
(* factory.go orders the accesses of one goroutine to runtimeOverride and  *)
(* globalDetector against those of another, so the steps interleave freely.*)

(* factory.go:93-101 *)
configureRuntime(d, e) ==
    LET runtime == Getenv(e, ACT_CONTAINER_RUNTIME) IN
    IF runtime # Unset /\ runtime = docker THEN SetPreferredRuntime(d, RuntimeDocker)
    ELSE IF runtime # Unset /\ runtime = podman THEN SetPreferredRuntime(d, RuntimePodman)
    ELSE d

(* factory.go:103-106 *)
configureSocket(d, e) ==
    LET socket == Getenv(e, ACT_CONTAINER_SOCKET) IN
    IF socket # Unset THEN DetectorSetCustomSocket(d, socket) ELSE d

(* The call each worker makes *)
WorkerOp == [w \in Workers |-> IF w = "w1" THEN "GetCurrentRuntime" ELSE "NewContainer"]

At(w, pc) == calls[w].pc = pc

Goto(w, pc) == calls' = [calls EXCEPT ![w].pc = pc]

Call(w) ==
    /\ At(w, "idle")
    /\ calls' = [calls EXCEPT ![w] = [IdleCall EXCEPT !.pc = "check",
                                                      !.op = WorkerOp[w],
                                                      !.during = {runtimeOverride}]]
    /\ UNCHANGED <<runtimeOverride, rd, env, world, handle, ret>>

(* factory.go:80, the read of runtimeOverride in the condition *)
CheckOverride(w) ==
    /\ At(w, "check")
    /\ calls' = [calls EXCEPT ![w].seen = runtimeOverride,
                              ![w].pc = IF runtimeOverride # RuntimeUnknown
                                        THEN "return" ELSE "configureRuntime"]
    /\ UNCHANGED <<runtimeOverride, rd, env, world, handle, ret>>

(* factory.go:81, return runtimeOverride: the variable is read again, or   *)
(* the build reuses the value the condition loaded                         *)
ReturnOverride(w) ==
    /\ At(w, "return")
    /\ \E v \in {calls[w].seen, runtimeOverride} :
          calls' = [calls EXCEPT ![w].runtime = v,
                                 ![w].detection = NoDetection,
                                 ![w].pc = "done"]
    /\ UNCHANGED <<runtimeOverride, rd, env, world, handle, ret>>

ConfigureRuntime(w) ==
    /\ At(w, "configureRuntime")
    /\ rd' = configureRuntime(rd, env)
    /\ Goto(w, "configureSocket")
    /\ UNCHANGED <<runtimeOverride, env, world, handle, ret>>

ConfigureSocket(w) ==
    /\ At(w, "configureSocket")
    /\ rd' = configureSocket(rd, env)
    /\ Goto(w, "detect")
    /\ UNCHANGED <<runtimeOverride, env, world, handle, ret>>

(* A verification of the runtime begins: the probe it blocks on starts,   *)
(* or it fails before any probe (no binary, no socket found, Unknown)      *)
beginVerify(call, w, runtime, awaitPc, elsePc) ==
    LET probes == verifyRuntimeProbes(w, runtime) IN
    IF probes = <<>> THEN [call EXCEPT !.pc = elsePc]
    ELSE [call EXCEPT !.probe = probes[1], !.candidate = runtime,
                      !.started = @ + 1, !.outcome = "none", !.pc = awaitPc]

(* How a probe can end on the host: Ping or Run returns nil, returns an    *)
(* error, or the probe's own deadline passes                               *)
Outcomes(w, probe) ==
    IF ProbeSucceeds(w, probe) THEN {"success"} ELSE {"error", "timeout"}

Awaiting == {"awaitPreferred", "awaitHint", "awaitAuto"}

LogOf(pc) ==
    CASE pc = "awaitPreferred" -> LogPreferred
      [] pc = "awaitHint" -> LogEnvironment
      [] OTHER -> LogAuto

AfterFailure(pc) ==
    CASE pc = "awaitPreferred" -> "hint"
      [] pc = "awaitHint" -> "auto"
      [] OTHER -> "nextCandidate"

(* A probe returning without its deferred cancel() and cli.Close() *)
endProbeLeftRunning(call, outcome, returned) ==
    IF outcome = "success"
    THEN [call EXCEPT !.outcome = outcome, !.runtime = returned,
                      !.detection = LogOf(call.pc), !.pc = "done"]
    ELSE [call EXCEPT !.outcome = outcome, !.pc = AfterFailure(call.pc)]

(* The blocking Ping or Run returns and the deferred cancel() and          *)
(* cli.Close() run: the probe is over, and on success the phase returns    *)
endProbe(call, outcome, returned) ==
    IF outcome = "success"
    THEN [call EXCEPT !.probe = NoProbe, !.outcome = outcome,
                      !.runtime = returned,
                      !.detection = LogOf(call.pc), !.pc = "done"]
    ELSE [call EXCEPT !.probe = NoProbe, !.outcome = outcome,
                      !.pc = AfterFailure(call.pc)]

(* What a phase returns once its probe succeeded.  The hint and the        *)
(* candidate of the loop are locals; the preference phase returns          *)
(* rd.preferredRuntime (runtime_detector.go:78), a field it has read for   *)
(* the check and the verification already and that nothing keeps another   *)
(* goroutine from writing: the field is read again, or the build reuses    *)
(* the value it verified.  The check of line 75 and the argument of line   *)
(* 76 are read in one step: a write between them has the effect of a       *)
(* write before both.                                                      *)
Returned(call, d) ==
    IF call.pc = "awaitPreferred" THEN {call.candidate, d.preferredRuntime}
    ELSE {call.candidate}

(* runtime_detector.go:74-83, the phase that reads preferredRuntime *)
DetectPreferred(w) ==
    /\ At(w, "detect")
    /\ calls' = [calls EXCEPT ![w] = beginVerify(calls[w], world, rd.preferredRuntime,
                                                 "awaitPreferred", "hint")]
    /\ UNCHANGED <<runtimeOverride, rd, env, world, handle, ret>>

(* runtime_detector.go:85-92 *)
DetectHint(w) ==
    /\ At(w, "hint")
    /\ calls' = [calls EXCEPT ![w] = beginVerify(calls[w], world,
                                                 checkEnvironmentHints(env),
                                                 "awaitHint", "auto")]
    /\ UNCHANGED <<runtimeOverride, rd, env, world, handle, ret>>

(* runtime_detector.go:130, detectRuntimeSockets reads customSocket *)
DetectSockets(w) ==
    /\ At(w, "auto")
    /\ calls' = [calls EXCEPT ![w].sockets = detectRuntimeSockets(rd, env, world),
                              ![w].pc = "nextCandidate"]
    /\ UNCHANGED <<runtimeOverride, rd, env, world, handle, ret>>

(* runtime_detector.go:131-142, one turn of the loop over the candidates *)
NextCandidate(w) ==
    /\ At(w, "nextCandidate")
    /\ calls' =
          IF calls[w].sockets = <<>>
          THEN [calls EXCEPT ![w].runtime = RuntimeUnknown,
                             ![w].detection = LogNone,
                             ![w].pc = "done"]
          ELSE [calls EXCEPT ![w].probe =
                                 verifySocketConnectionProbes(Head(calls[w].sockets))[1],
                             ![w].candidate = Head(calls[w].sockets).Runtime,
                             ![w].sockets = Tail(calls[w].sockets),
                             ![w].started = @ + 1,
                             ![w].outcome = "none",
                             ![w].pc = "awaitAuto"]
    /\ UNCHANGED <<runtimeOverride, rd, env, world, handle, ret>>

EndProbe(w) ==
    /\ calls[w].pc \in Awaiting
    /\ \E outcome \in Outcomes(world, calls[w].probe) :
       \E returned \in Returned(calls[w], rd) :
          calls' = [calls EXCEPT ![w] = endProbe(calls[w], outcome, returned)]
    /\ UNCHANGED <<runtimeOverride, rd, env, world, handle, ret>>

Return(w) ==
    /\ At(w, "done")
    /\ ret' = [op |-> calls[w].op, runtime |-> calls[w].runtime,
               detection |-> calls[w].detection,
               inEffect |-> calls[w].runtime \in calls[w].during,
               started |-> calls[w].started,
               running |-> calls[w].probe,
               proved |-> IF calls[w].outcome = "success"
                          THEN calls[w].candidate ELSE RuntimeUnknown,
               handle |-> IF calls[w].op = "NewContainer"
                          THEN containerFor(calls[w].runtime, TestInput) ELSE Nil]
    /\ calls' = [calls EXCEPT ![w] = IdleCall]
    /\ UNCHANGED <<runtimeOverride, rd, env, world, handle>>

Step(w) ==
    \/ Call(w)
    \/ CheckOverride(w)
    \/ ReturnOverride(w)
    \/ ConfigureRuntime(w)
    \/ ConfigureSocket(w)
    \/ DetectPreferred(w)
    \/ DetectHint(w)
    \/ DetectSockets(w)
    \/ NextCandidate(w)
    \/ EndProbe(w)
    \/ Return(w)

DockerHost ==
    [binaries |-> {"docker"}, sockets |-> {TablePath(4)},
     live |-> {dockerHostDefault}, dockerSocket |-> dockerHostDefault,
     podmanInfo |-> FALSE, machineSocket |-> Unset]

RaceHosts == {NoHost, DockerHost}

(* The override set and cleared while the workers resolve *)
InitOverride ==
    /\ runtimeOverride = RuntimeUnknown
    /\ rd = NewRuntimeDetector
    /\ env = BareEnv
    /\ world \in RaceHosts
    /\ handle = Nil
    /\ calls = NoCalls
    /\ ret = NoCall

NextOverride ==
    \/ \E w \in Workers : Step(w)
    \/ \E r \in ContainerRuntime : SetRuntimeOverride(r)
    \/ ClearRuntimeOverride

SpecOverride == InitOverride /\ [][NextOverride]_vars

(* C17: a resolution call that ran no detection returns an override that   *)
(* is not Unknown and was in effect at some instant of the call; any other *)
(* call returns what the detection it ran found.                           *)
C17_OverrideRaceSafe ==
    ret.op \in ResolutionOps =>
        \/ /\ ret.detection = NoDetection
           /\ ret.runtime # RuntimeUnknown
           /\ ret.inEffect
        \/ /\ ret.detection \in {LogPreferred, LogEnvironment, LogAuto, LogNone}
           /\ ret.detection = LogNone <=> ret.runtime = RuntimeUnknown

---------------------------------------------------------------------------
(* The workers resolving in parallel in an environment that does not       *)
(* change, the override as it was left before they started                 *)

InitWorkers ==
    /\ runtimeOverride \in {RuntimeUnknown, RuntimePodman}
    /\ rd = NewRuntimeDetector
    /\ \E a \in {Unset, docker} :
       \E s \in {Unset, envSocket} :
          env = [BareEnv EXCEPT ![ACT_CONTAINER_RUNTIME] = a,
                                ![ACT_CONTAINER_SOCKET] = s]
    /\ world \in RaceHosts
    /\ handle = Nil
    /\ calls = NoCalls
    /\ ret = NoCall

NextWorkers == \E w \in Workers : Step(w)

SpecWorkers == InitWorkers /\ [][NextWorkers]_vars

(* The shared fields the next step of a worker writes, and those it reads *)
WritesOf(w) ==
    CASE At(w, "configureRuntime") ->
            IF env[ACT_CONTAINER_RUNTIME] \in {docker, podman}
            THEN {"preferredRuntime"} ELSE {}
      [] At(w, "configureSocket") ->
            IF env[ACT_CONTAINER_SOCKET] # Unset THEN {"customSocket"} ELSE {}
      [] OTHER -> {}

ReadsOf(w) ==
    CASE At(w, "check") \/ At(w, "return") -> {"runtimeOverride"}
      [] At(w, "detect") \/ At(w, "awaitPreferred") -> {"preferredRuntime"}
      [] At(w, "auto") -> {"customSocket"}
      [] OTHER -> {}

(* C18: no worker is about to write preferredRuntime, customSocket or the  *)
(* override while another worker is about to read or write the same field: *)
(* nothing orders the two accesses.                                        *)
C18_ConfigurationNotRaced ==
    \A a, b \in Workers :
        a # b => WritesOf(a) \cap (ReadsOf(b) \cup WritesOf(b)) = {}

---------------------------------------------------------------------------
(* One caller going through its resolution call probe by probe, and the    *)
(* calls that verify or look for a socket themselves, on hosts where the   *)
(* probes succeed, fail or run into their timeout                          *)

ProbeHosts ==
    { [w EXCEPT !.machineSocket = m, !.sockets = @ \cup (IF m = Unset THEN {} ELSE {m})] :
        w \in { v \in FactoryHosts :
                  /\ v.binaries = {"docker", "podman"}
                  /\ v.live \subseteq {HostOf(TablePath(4))} },
        m \in {Unset, machinePath} }

InitProbes ==
    /\ \/ /\ runtimeOverride = RuntimeUnknown
          /\ \E r \in {RuntimeUnknown, RuntimeDocker} :
             \E c \in {Unset, cliSocket} :
                rd = [preferredRuntime |-> r, customSocket |-> c]
          /\ \E p \in {Unset, testHost} :
                env = [BareEnv EXCEPT ![PODMAN_HOST] = p]
          /\ world \in ProbeHosts
       \/ /\ runtimeOverride = RuntimePodman
          /\ rd = NewRuntimeDetector
          /\ env = BareEnv
          /\ world = NoHost
    /\ handle = Nil
    /\ calls = NoCalls
    /\ ret = NoCall

NextProbes ==
    \/ Step("w1")
    \/ \E r \in ContainerRuntime : NewContainerWithRuntime(TestInput, r)
    \/ GetAvailableRuntimes
    \/ \E r \in ContainerRuntime : GetSocketForRuntimeCall(r)

SpecProbes == InitProbes /\ [][NextProbes]_vars

(* A measure of how far a call is from returning *)
Rank(call) ==
    LET top == 2 * Len(candidates) + 5 IN
    CASE call.pc = "idle" -> 0
      [] call.pc = "done" -> 1
      [] call.pc = "nextCandidate" -> 2 * Len(call.sockets) + 3
      [] call.pc = "awaitAuto" -> 2 * Len(call.sockets) + 4
      [] call.pc = "auto" -> top
      [] call.pc = "awaitHint" -> top + 1
      [] call.pc = "hint" -> top + 2
      [] call.pc = "awaitPreferred" -> top + 3
      [] call.pc = "detect" -> top + 4
      [] call.pc = "configureSocket" -> top + 5
      [] call.pc = "configureRuntime" -> top + 6
      [] call.pc = "return" -> top + 6
      [] OTHER -> top + 7

(* The candidates of the list: the custom socket alone, or the table       *)
(* entries that exist                                                      *)
CandidateCount == Cardinality(CandidateHosts)

ProbesBounded ==
    /\ \A w \in Workers :
          /\ calls[w].started <= 2 + CandidateCount
          /\ calls[w].pc \notin Awaiting => calls[w].probe = NoProbe
    /\ ret.op \in ResolutionOps =>
          ret.started <= 2 + CandidateCount /\ ret.running = NoProbe
    /\ ret.op = "NewContainerWithRuntime" => Len(ret.probes) <= 1
    /\ ret.op = "GetAvailableRuntimes" => Len(ret.probes) <= 2
    /\ ret.op = "GetSocketForRuntime" => Len(ret.probes) <= 1 + CandidateCount

EveryStepNearer ==
    \A w \in Workers :
        calls'[w] # calls[w] =>
            \/ calls[w].pc = "idle"
            \/ Rank(calls'[w]) < Rank(calls[w])

(* C19 as stated: a resolution call starts at most one probe for the       *)
(* preference, one for the hint and one for each table candidate that      *)
(* exists.                                                                 *)
C19_ProbesPerTableCandidate ==
    ret.op \in ResolutionOps => ret.started <= 2 + Cardinality(Existing)

(* C19: every step of a resolution call brings it nearer to its return,    *)
(* so it returns; it starts at most one probe for the preference, one for  *)
(* the hint and one for each candidate of the list (the custom socket      *)
(* alone, or the table entries that exist); the calls that verify          *)
(* themselves start at most one probe per backend they verify,             *)
(* GetSocketForRuntime at most the machine lookup and one per candidate;   *)
(* and a call that is not blocked on a probe has none running, neither     *)
(* when it returns.                                                        *)
C19_BoundedProbes == []ProbesBounded /\ [][EveryStepNearer]_vars

(* A call with Docker preferred and Podman hinted started four probes,     *)
(* none of which succeeded, and returned Unknown with no probe running     *)
C19_Witness ==
    /\ ret.op = "GetCurrentRuntime"
    /\ rd.preferredRuntime = RuntimeDocker
    /\ env[PODMAN_HOST] # Unset
    /\ Cardinality(Existing) = 2
    /\ ret.started = 4
    /\ ret.runtime = RuntimeUnknown
    /\ ret.running = NoProbe
    /\ calls["w1"].pc = "idle"

---------------------------------------------------------------------------
(* The caller's context being cancelled while its resolution call runs.    *)
(* getSelectedRuntime takes no context, and each probe derives its own     *)
(* from context.Background(), so nothing a probe waits on changes.         *)

CancelCaller(w) ==
    /\ ~At(w, "idle")
    /\ ~calls[w].cancelled
    /\ calls' = [calls EXCEPT ![w].cancelled = TRUE]
    /\ UNCHANGED <<runtimeOverride, rd, env, world, handle, ret>>

InitCancel == InitProbes

NextCancel ==
    \/ Step("w1")
    \/ CancelCaller("w1")

SpecCancel == InitCancel /\ [][NextCancel]_vars

(* C20: a probe that is in flight when the caller's context has been       *)
(* cancelled does not go on until its own timeout.                         *)
C20_CancellationPropagates ==
    [][ \A w \in Workers :
          (/\ calls[w].pc \in Awaiting
           /\ calls[w].cancelled
           /\ calls'[w].probe = NoProbe)
              => calls'[w].outcome # "timeout" ]_vars

---------------------------------------------------------------------------
(* A caller resolving twice in a row, whatever the override, the CLI       *)
(* configuration, the environment and the host are, none of them touched   *)
(* in between                                                              *)

(* The second of two consecutive calls of GetCurrentRuntime: first is what *)
(* the first call returned, left the detector as that call left it         *)
GetCurrentRuntimeAgain ==
    LET sel == getSelectedRuntime(runtimeOverride, rd, env, world) IN
    /\ ret.op = "GetCurrentRuntime"
    /\ rd' = sel.rd
    /\ ret' = [op |-> "GetCurrentRuntimeAgain", runtime |-> sel.runtime,
               detection |-> sel.detection,
               probes |-> getSelectedRuntimeProbes(runtimeOverride, rd, env, world),
               first |-> ret.runtime, left |-> rd]
    /\ UNCHANGED <<runtimeOverride, env, world, handle, calls>>

InitTwice ==
    /\ runtimeOverride \in {RuntimeUnknown, RuntimePodman}
    /\ \E r \in ContainerRuntime :
       \E c \in {Unset, cliSocket} :
          rd = [preferredRuntime |-> r, customSocket |-> c]
    /\ \E a \in {Unset, docker, DOCKER} :
       \E s \in {Unset, envSocket} :
       \E p \in {Unset, testHost} :
          env = [BareEnv EXCEPT ![ACT_CONTAINER_RUNTIME] = a,
                                ![ACT_CONTAINER_SOCKET] = s,
                                ![PODMAN_HOST] = p]
    /\ world \in { w \in FactoryHosts :
                      /\ w.sockets = {TablePath(k) : k \in {2, 4}}
                      /\ w.podmanInfo = ("podman" \in w.binaries) }
    /\ handle = Nil
    /\ calls = NoCalls
    /\ ret = NoCall

NextTwice ==
    \/ GetCurrentRuntime
    \/ GetCurrentRuntimeAgain

SpecTwice == InitTwice /\ [][NextTwice]_vars

(* C21: the second of two consecutive resolution calls, made with the      *)
(* override, the configuration, the environment and the host as the first  *)
(* left them, returns the backend the first returned and leaves the        *)
(* detector as the first left it.                                          *)
C21_Deterministic ==
    ret.op = "GetCurrentRuntimeAgain" =>
        /\ ret.runtime = ret.first
        /\ rd = ret.left

(* The CLI preferred Podman, the environment names docker: the first call  *)
(* replaced the preference and returned Docker, and so did the second      *)
C21_Witness ==
    /\ ret.op = "GetCurrentRuntimeAgain"
    /\ runtimeOverride = RuntimeUnknown
    /\ env[ACT_CONTAINER_RUNTIME] = docker
    /\ verifyDocker(world) /\ verifyPodman(world)
    /\ rd.preferredRuntime = RuntimeDocker
    /\ ret.first = RuntimeDocker
    /\ ret.runtime = RuntimeDocker

---------------------------------------------------------------------------
(* Teardown of a handle whose container was never created *)

TeardownMethods == {"Remove", "Close"}

(* C22: on the Null Adapter, whose Create never succeeds, Remove and Close *)
(* report no error, however often and in whatever order they are called,   *)
(* and leave the handle as it was.                                         *)
C22_TeardownSafe ==
    ret.op \in TeardownMethods =>
        /\ ret.err.isNil
        /\ handle = newNullContainer(TestInput)

---------------------------------------------------------------------------
(* The command-line binary of a backend *)
BinaryOf(runtime) == IF runtime = RuntimePodman THEN "podman" ELSE "docker"

(* C23: a resolution call made with no override that returns Docker or     *)
(* Podman found that backend's binary on the search path and made a probe  *)
(* that succeeded, whichever phase produced the result.                    *)
C23_ReturnedIsVerified ==
    (/\ ret.op \in ResolutionOps
     /\ runtimeOverride = RuntimeUnknown
     /\ ret.runtime # RuntimeUnknown)
        => /\ BinaryOf(ret.runtime) \in world.binaries
           /\ \E i \in DOMAIN ret.probes : ProbeSucceeds(world, ret.probes[i])

---------------------------------------------------------------------------
(* A URI with one scheme in front of a path that does not start with one *)
HasOneScheme(uri) ==
    /\ HasPrefix(uri, UnixScheme) \/ HasPrefix(uri, NpipeScheme)
    /\ ~HasPrefix(Tail(uri), UnixScheme)
    /\ ~HasPrefix(Tail(uri), NpipeScheme)

(* C24: a socket GetSocketForRuntime reports as found starts with exactly  *)
(* one unix:// or npipe:// prefix, is the URI of a path that exists on the *)
(* host, and answered a Ping made during that call; on the custom-socket   *)
(* path, the Podman-machine path and the table scan alike.                 *)
C24_FoundIsResolved ==
    (ret.op = "GetSocketForRuntime" /\ ret.found) =>
        /\ HasOneScheme(ret.socket)
        /\ \E p \in world.sockets : HostOf(p) = ret.socket
        /\ \E i \in DOMAIN ret.probes :
              /\ ret.probes[i] = PingProbe(ret.socket)
              /\ ProbeSucceeds(world, ret.probes[i])

---------------------------------------------------------------------------
(* The Podman machine lookup against the plain scan of the table *)

(* The lookup gives a path: the subprocess ran and printed one that exists *)
LookupGivesPath(w) ==
    /\ "podman" \in w.binaries
    /\ w.machineSocket \notin {Unset, NoValue}
    /\ w.machineSocket \in w.sockets

AnsweringRowsOf(runtime) == {k \in Answering : candidates[k].Runtime = runtime}

(* The answering row of the runtime with the highest score, the earlier    *)
(* row on a tie                                                            *)
BestRowOf(runtime) ==
    CHOOSE k \in AnsweringRowsOf(runtime) :
        \A m \in AnsweringRowsOf(runtime) :
            \/ candidates[k].Score > candidates[m].Score
            \/ candidates[k].Score = candidates[m].Score /\ k <= m

(* What the scan of the table alone finds for the runtime *)
TableScan(runtime) ==
    IF AnsweringRowsOf(runtime) = {} THEN NotFound
    ELSE [socket |-> HostOf(TablePath(BestRowOf(runtime))), found |-> TRUE]

Pings(probes) == {i \in DOMAIN probes : probes[i].kind = "ping"}

Lookups(probes) == {i \in DOMAIN probes : probes[i].target = PodmanMachineInspectCommand}

(* C25: with no custom socket, GetSocketForRuntime(Podman) returns         *)
(* "unix://" + the machine path, and pings nothing, if the lookup gives a  *)
(* path that exists; if the lookup fails (the subprocess fails or prints   *)
(* nothing, prints "<no value>", or the path is not accessible) it returns *)
(* what the scan of the table finds, found or not; and a call for another  *)
(* runtime makes no lookup and returns what the scan finds.                *)
C25_MachineLookupOptional ==
    (ret.op = "GetSocketForRuntime" /\ rd.customSocket = Unset) =>
        /\ ret.found \in BOOLEAN
        /\ (ret.requested = RuntimePodman /\ LookupGivesPath(world)) =>
              /\ ret.found
              /\ ret.socket = UnixScheme \o world.machineSocket
              /\ Pings(ret.probes) = {}
        /\ (ret.requested = RuntimePodman /\ ~LookupGivesPath(world)) =>
              [socket |-> ret.socket, found |-> ret.found] = TableScan(RuntimePodman)
        /\ ret.requested # RuntimePodman =>
              /\ Lookups(ret.probes) = {}
              /\ [socket |-> ret.socket, found |-> ret.found] = TableScan(ret.requested)

(* The lookup printed a path that is not accessible and the call returned  *)
(* the system-wide Podman socket, which answers                            *)
C25_Witness ==
    /\ ret.op = "GetSocketForRuntime"
    /\ ret.requested = RuntimePodman
    /\ rd.customSocket = Unset
    /\ world.machineSocket = machinePath
    /\ machinePath \notin world.sockets
    /\ Lookups(ret.probes) = {1}
    /\ ret.found
    /\ ret.socket = HostOf(TablePath(2))

---------------------------------------------------------------------------
(* The Podman adapter, podman_run.go: container creation.  The error text  *)
(* coming from the daemon is written one character per chunk; what         *)
(* createPodman puts around it is written in whole chunks.                 *)

rootless == <<"r", "o", "o", "t", "l", "e", "s", "s">>
slirp4netns == <<"s", "l", "i", "r", "p", "4", "n", "e", "t", "n", "s">>
userNamespace == <<"u", "s", "e", "r", " ", "n", "a", "m", "e", "s", "p", "a", "c", "e">>

podmanIndicators == <<slirp4netns, rootless, userNamespace, podman>>

(* podman_run.go:114-134 *)
isPodmanSpecificError(err) ==
    IF err.isNil THEN FALSE
    ELSE LET errStr == ToLower(err.msg) IN
         \E i \in DOMAIN podmanIndicators : Contains(errStr, podmanIndicators[i])

HintRootless ==
    "This may be related to rootless Podman. Try running with --privileged or check user namespace configuration."
HintSlirp4netns ==
    "This may be related to Podman networking. Ensure slirp4netns is installed and properly configured."
HintUserNamespace ==
    "This may be related to user namespace mapping. Check /etc/subuid and /etc/subgid configuration."
HintDocumentation ==
    "Check Podman documentation at https://podman.io/getting-started/ for troubleshooting."

(* getPodmanErrorHint looking for "slirp4netns" before "rootless" *)
getPodmanErrorHintSlirpFirst(err) ==
    IF err.isNil THEN ""
    ELSE LET errStr == ToLower(err.msg) IN
         IF Contains(errStr, slirp4netns) THEN HintSlirp4netns
         ELSE IF Contains(errStr, rootless) THEN HintRootless
         ELSE IF Contains(errStr, userNamespace) THEN HintUserNamespace
         ELSE HintDocumentation

(* podman_run.go:137-157 *)
getPodmanErrorHint(err) ==
    IF err.isNil THEN ""
    ELSE LET errStr == ToLower(err.msg) IN
         IF Contains(errStr, rootless) THEN HintRootless
         ELSE IF Contains(errStr, slirp4netns) THEN HintSlirp4netns
         ELSE IF Contains(errStr, userNamespace) THEN HintUserNamespace
         ELSE HintDocumentation

(* fmt.Errorf with one %w: the text, and the error errors.Unwrap gives *)
Wrapf(msg, err) == [isNil |-> FALSE, msg |-> msg, unwrap |-> err]

(* podman_run.go:61-77, given the error createGeneric returned *)
createPodman(created) ==
    IF ~created.isNil
    THEN IF isPodmanSpecificError(created)
         THEN Wrapf(<<"podman container creation failed: ">> \o created.msg
                        \o <<"\n", "Hint: ", getPodmanErrorHint(created)>>,
                    created)
         ELSE created
    ELSE NilError

(* Create on the Podman adapter; world.createError is what createGeneric   *)
(* gets back from the daemon                                               *)
CreatePodman ==
    /\ IsPodmanAdapter(handle)
    /\ ret' = [op |-> "createPodman", err |-> createPodman(world.createError)]
    /\ UNCHANGED <<runtimeOverride, rd, env, world, handle, calls>>

MaxWords == 2

Rootless == <<"R", "o", "o", "t", "l", "e", "s", "s">>
SLIRP4NETNS == <<"S", "L", "I", "R", "P", "4", "N", "E", "T", "N", "S">>
UserNamespace == <<"U", "s", "e", "r", " ", "N", "a", "m", "e", "s", "p", "a", "c", "e">>
user == <<"u", "s", "e", "r">>
denied == <<"d", "e", "n", "i", "e", "d">>

ErrorWords ==
    { rootless, Rootless, slirp4netns, SLIRP4NETNS, userNamespace, UserNamespace,
      podman, Podman, user, denied }

(* What creation can come back with: no error, or an error whose text is   *)
(* made of a few words                                                     *)
CreateErrors ==
    {NilError} \cup
    { Errorf(Flatten(ws)) : ws \in UNION { [1..n -> ErrorWords] : n \in 0..MaxWords } }

InitCreate ==
    /\ runtimeOverride = RuntimeUnknown
    /\ rd = NewRuntimeDetector
    /\ env = BareEnv
    /\ \E e \in CreateErrors :
          world = [binaries |-> {"podman"}, sockets |-> {}, live |-> {},
                   dockerSocket |-> Unset, podmanInfo |-> TRUE,
                   machineSocket |-> Unset, createError |-> e]
    /\ handle = newPodmanContainer(TestInput)
    /\ calls = NoCalls
    /\ ret = NoCall

NextCreate == CreatePodman

SpecCreate == InitCreate /\ [][NextCreate]_vars

IsLowerLetter(c) == \E k \in DOMAIN LowerLetters : LowerLetters[k] = c

(* s holds the lower-case text somewhere, its letters in either case *)
Mentions(s, text) ==
    \E i \in 1..Len(s) :
        /\ i + Len(text) - 1 <= Len(s)
        /\ \A j \in 1..Len(text) :
              \/ s[i + j - 1] = text[j]
              \/ IsLowerLetter(text[j]) /\ s[i + j - 1] = UpperOf(text[j])

(* The hint the precedence rootless > slirp4netns > user namespace >       *)
(* documentation picks for a text                                          *)
HintFor(s) ==
    IF Mentions(s, rootless) THEN HintRootless
    ELSE IF Mentions(s, slirp4netns) THEN HintSlirp4netns
    ELSE IF Mentions(s, userNamespace) THEN HintUserNamespace
    ELSE HintDocumentation

Hints == {HintRootless, HintSlirp4netns, HintUserNamespace, HintDocumentation}

(* C26: when creation fails createPodman returns an error; if the text of  *)
(* the failure mentions slirp4netns, rootless, user namespace or podman in *)
(* any letter case, the error returned wraps the failure, carries its text *)
(* and ends in exactly one hint, picked by the precedence rootless >       *)
(* slirp4netns > user namespace > documentation; otherwise the failure is  *)
(* returned as it came.                                                    *)
C26_CreateErrorSurfaces ==
    ret.op = "createPodman" =>
        LET failure == world.createError
            indicated == \/ Mentions(failure.msg, slirp4netns)
                         \/ Mentions(failure.msg, rootless)
                         \/ Mentions(failure.msg, userNamespace)
                         \/ Mentions(failure.msg, podman)
        IN  /\ ~failure.isNil => ~ret.err.isNil
            /\ (~failure.isNil /\ indicated) =>
                  /\ ret.err.unwrap = failure
                  /\ Contains(ret.err.msg, failure.msg)
                  /\ Cardinality({i \in DOMAIN ret.err.msg : ret.err.msg[i] \in Hints}) = 1
                  /\ Cardinality({i \in DOMAIN ret.err.msg : ret.err.msg[i] = "Hint: "}) = 1
                  /\ ret.err.msg[Len(ret.err.msg)] = HintFor(failure.msg)
            /\ (~failure.isNil /\ ~indicated) => ret.err = failure

(* A failure naming SLIRP4NETNS before Rootless came back wrapped, with    *)
(* the hint for rootless Podman                                            *)
C26_Witness ==
    /\ ret.op = "createPodman"
    /\ world.createError = Errorf(SLIRP4NETNS \o Rootless)
    /\ ret.err.unwrap = world.createError
    /\ ret.err.msg[Len(ret.err.msg)] = HintRootless

---------------------------------------------------------------------------
(* The CLI setting the preference while the workers resolve, the override *)
(* as it was left before they started                                     *)

BothHost ==
    [binaries |-> {"docker", "podman"}, sockets |-> {TablePath(4)},
     live |-> {dockerHostDefault}, dockerSocket |-> dockerHostDefault,
     podmanInfo |-> TRUE, machineSocket |-> Unset]

InitPreference ==
    /\ runtimeOverride \in {RuntimeUnknown, RuntimePodman}
    /\ \E r \in ContainerRuntime :
          rd = [preferredRuntime |-> r, customSocket |-> Unset]
    /\ env = BareEnv
    /\ world \in {DockerHost, BothHost}
    /\ handle = Nil
    /\ calls = NoCalls
    /\ ret = NoCall

NextPreference ==
    \/ \E w \in Workers : Step(w)
    \/ \E r \in ContainerRuntime : SetRuntimePreference(r)

SpecPreference == InitPreference /\ [][NextPreference]_vars

(* C27: a resolution call that returns from the preference phase returns   *)
(* the backend whose probe it saw succeed, not Unknown and not another     *)
(* backend, whatever SetRuntimePreference does meanwhile.                  *)
C27_PreferenceReturnedIsVerified ==
    (ret.op \in ResolutionOps /\ ret.detection = LogPreferred) =>
        /\ ret.runtime # RuntimeUnknown
        /\ ret.runtime = ret.proved

---------------------------------------------------------------------------
(* C28: on a host that does not change, a socket lookup for Podman made    *)
(* right after a resolution call that returned Podman with no override     *)
(* finds a socket.                                                         *)
C28_ResolutionAndLookupAgree ==
    [][ (/\ ret.op \in ResolutionOps
         /\ runtimeOverride = RuntimeUnknown
         /\ ret.runtime = RuntimePodman
         /\ ret'.op = "GetSocketForRuntime"
         /\ ret'.requested = RuntimePodman
         /\ world' = world)
            => ret'.found ]_vars

---------------------------------------------------------------------------
(* Force-select under every state the resolution can be left in: override, *)
(* CLI configuration and the four variables                                *)

InitSelect ==
    /\ runtimeOverride \in {RuntimeUnknown, RuntimeDocker}
    /\ \E r \in {RuntimeUnknown, RuntimeDocker} :
       \E c \in {Unset, cliSocket} :
          rd = [preferredRuntime |-> r, customSocket |-> c]
    /\ \E a \in {Unset, docker} :
       \E s \in {Unset, envSocket} :
       \E p \in {Unset, testHost} :
       \E h \in {Unset, testHost} :
          env = [BareEnv EXCEPT ![ACT_CONTAINER_RUNTIME] = a,
                                ![ACT_CONTAINER_SOCKET] = s,
                                ![PODMAN_HOST] = p,
                                ![DOCKER_HOST] = h]
    /\ world \in ForceHosts
    /\ handle = Nil
    /\ calls = NoCalls
    /\ ret = NoCall

NextSelect == \E r \in ContainerRuntime : NewContainerWithRuntime(TestInput, r)

SpecSelect == InitSelect /\ [][NextSelect]_vars

(* The handle force-select owes for a backend, from the backend and from   *)
(* whether the host verifies it, and from nothing else                     *)
ForcedHandle(w, b) ==
    IF HostVerifies(w, b)
    THEN [adapter |-> "containerReference", runtime |-> b, input |-> TestInput,
          cli |-> NilClient]
    ELSE [adapter |-> "nullContainer", runtime |-> RuntimeUnknown, input |-> TestInput]

(* C29: NewContainerWithRuntime(input, b) returns the handle that b and    *)
(* the verification of b determine, whatever the override, the preference, *)
(* the custom socket and the four variables are, and leaves the override,  *)
(* the detector and the environment as they were.                          *)
C29_ForceSelectIndependent ==
    [][ ret'.op = "NewContainerWithRuntime" =>
          /\ ret'.handle = ForcedHandle(world, ret'.requested)
          /\ runtimeOverride' = runtimeOverride
          /\ rd' = rd
          /\ env' = env ]_vars

(* Podman was forced and came back while the override, the preference and  *)
(* two variables name Docker and a custom socket is configured             *)
C29_Witness ==
    /\ ret.op = "NewContainerWithRuntime"
    /\ ret.requested = RuntimePodman
    /\ runtimeOverride = RuntimeDocker
    /\ rd = [preferredRuntime |-> RuntimeDocker, customSocket |-> cliSocket]
    /\ env[ACT_CONTAINER_RUNTIME] = docker
    /\ env[DOCKER_HOST] # Unset
    /\ ~HostVerifies(world, RuntimeDocker)
    /\ IsPodmanAdapter(ret.handle)

---------------------------------------------------------------------------
(* The Podman adapter, podman_run.go: the connection.  The host's sockets  *)
(* come up and go down between the calls.                                  *)

(* client.NewClientWithOpts(client.WithHost(host), ...): a host that is    *)
(* not of the form scheme://address is refused                             *)
NewClientWithOpts(host) ==
    IF Len(host) > 1 /\ (HasPrefix(host, UnixScheme) \/ HasPrefix(host, NpipeScheme))
    THEN [cli |-> Client(host), err |-> NilError]
    ELSE [cli |-> NilClient, err |-> Errorf(<<"unable to parse docker host">>)]

(* cli.Ping(ctx) under the caller's context: no deadline of its own *)
CallerPing(host) == [kind |-> "ping", target |-> host, timeout |-> 0]

(* connectPodman keeping the client whose ping failed *)
connectPodmanKeepFailed(cr, d, e, w) ==
    IF ~cr.cli.isNil
    THEN [cr |-> cr, err |-> NilError, probes |-> <<>>, closed |-> {}]
    ELSE LET got == GetSocketForRuntime(d, e, w, RuntimePodman)
             made == NewClientWithOpts(got.socket)
         IN  IF ~got.found
             THEN [cr |-> cr, probes |-> got.probes, closed |-> {},
                   err |-> Errorf(<<"podman socket not found or not accessible">>)]
             ELSE IF ~made.err.isNil
             THEN [cr |-> cr, probes |-> got.probes, closed |-> {},
                   err |-> Wrapf(<<"failed to create Podman client: ">> \o made.err.msg,
                                 made.err)]
             ELSE IF ~Ping(w, got.socket)
             THEN [cr |-> [cr EXCEPT !.cli = made.cli],
                   probes |-> got.probes \o <<CallerPing(got.socket)>>,
                   closed |-> {made.cli},
                   err |-> Wrapf(<<"failed to ping Podman daemon: ", "ping error">>,
                                 Errorf(<<"ping error">>))]
             ELSE [cr |-> [cr EXCEPT !.cli = made.cli],
                   probes |-> got.probes \o <<CallerPing(got.socket)>>,
                   closed |-> {}, err |-> NilError]

(* podman_run.go:24-58: the handle as the call leaves it, the error, the   *)
(* probes made and the clients closed                                      *)
connectPodman(cr, d, e, w) ==
    IF ~cr.cli.isNil
    THEN [cr |-> cr, err |-> NilError, probes |-> <<>>, closed |-> {}]
    ELSE LET got == GetSocketForRuntime(d, e, w, RuntimePodman)
             made == NewClientWithOpts(got.socket)
         IN  IF ~got.found
             THEN [cr |-> cr, probes |-> got.probes, closed |-> {},
                   err |-> Errorf(<<"podman socket not found or not accessible">>)]
             ELSE IF ~made.err.isNil
             THEN [cr |-> cr, probes |-> got.probes, closed |-> {},
                   err |-> Wrapf(<<"failed to create Podman client: ">> \o made.err.msg,
                                 made.err)]
             ELSE IF ~Ping(w, got.socket)
             THEN [cr |-> cr,
                   probes |-> got.probes \o <<CallerPing(got.socket)>>,
                   closed |-> {made.cli},
                   err |-> Wrapf(<<"failed to ping Podman daemon: ", "ping error">>,
                                 Errorf(<<"ping error">>))]
             ELSE [cr |-> [cr EXCEPT !.cli = made.cli],
                   probes |-> got.probes \o <<CallerPing(got.socket)>>,
                   closed |-> {}, err |-> NilError]

ConnectPodman ==
    LET done == connectPodman(handle, rd, env, world) IN
    /\ IsPodmanAdapter(handle)
    /\ handle' = done.cr
    /\ ret' = [op |-> "connectPodman", err |-> done.err, probes |-> done.probes,
               closed |-> done.closed]
    /\ UNCHANGED <<runtimeOverride, rd, env, world, calls>>

cliHost == UnixScheme \o cliSocket

ConnectTargets == {HostOf(TablePath(2)), HostOf(machinePath), cliHost}

(* A daemon starts or stops answering on its socket *)
SocketComesUp(host) ==
    /\ host \notin world.live
    /\ world' = [world EXCEPT !.live = @ \cup {host}]
    /\ ret' = NoCall
    /\ UNCHANGED <<runtimeOverride, rd, env, handle, calls>>

SocketGoesDown(host) ==
    /\ host \in world.live
    /\ world' = [world EXCEPT !.live = @ \ {host}]
    /\ ret' = NoCall
    /\ UNCHANGED <<runtimeOverride, rd, env, handle, calls>>

InitConnect ==
    /\ runtimeOverride = RuntimeUnknown
    /\ \E c \in {Unset, cliSocket, cliHost} :
          rd = [preferredRuntime |-> RuntimeUnknown, customSocket |-> c]
    /\ env = BareEnv
    /\ \E b \in {{}, {"podman"}} :
       \E t \in SUBSET {TablePath(2)} :
       \E m \in {Unset, machinePath} :
          world = [binaries |-> b,
                   sockets |-> t \cup (IF m = Unset THEN {} ELSE {m}),
                   live |-> {}, dockerSocket |-> Unset,
                   podmanInfo |-> b # {}, machineSocket |-> m]
    /\ handle = newPodmanContainer(TestInput)
    /\ calls = NoCalls
    /\ ret = NoCall

NextConnect ==
    \/ ConnectPodman
    \/ \E h \in ConnectTargets : SocketComesUp(h)
    \/ \E h \in ConnectTargets : SocketGoesDown(h)

SpecConnect == InitConnect /\ [][NextConnect]_vars

(* The pings connectPodman makes through the client it created *)
ConnectPings(probes) ==
    {i \in DOMAIN probes : probes[i] = CallerPing(probes[i].target)}

(* C30: a connect on a handle that holds a client returns success at once, *)
(* with no lookup and no probe, and keeps the client; a connect on a       *)
(* handle that holds none ends either with a client set and no error, the  *)
(* client being on a host that has just answered the call's ping, or with  *)
(* an error and still no client, a client whose ping failed having been    *)
(* closed; so the next call starts again from the lookup.                  *)
C30_ClientOnlyAfterPing ==
    [][ ret'.op = "connectPodman" =>
          /\ ~handle.cli.isNil =>
                /\ ret'.err.isNil
                /\ ret'.probes = <<>>
                /\ ret'.closed = {}
                /\ handle' = handle
          /\ handle.cli.isNil =>
                /\ ret'.err.isNil <=> ~handle'.cli.isNil
                /\ ~handle'.cli.isNil =>
                      /\ handle'.cli.host \in world.live
                      /\ ret'.probes # <<>>
                      /\ ret'.probes[Len(ret'.probes)] = CallerPing(handle'.cli.host)
                      /\ ret'.closed = {}
                /\ handle'.cli.isNil =>
                      /\ handle' = handle
                      /\ \A i \in ConnectPings(ret'.probes) :
                            /\ ret'.probes[i].target \notin world.live
                            /\ Client(ret'.probes[i].target) \in ret'.closed ]_vars

(* A connect on a handle whose client is on a socket that has since gone   *)
(* down: success, without a probe, the client kept                         *)
C30_Witness ==
    /\ ret.op = "connectPodman"
    /\ ret.err.isNil
    /\ ret.probes = <<>>
    /\ ~handle.cli.isNil
    /\ handle.cli.host \notin world.live
    /\ world.live # {}

=============================================================================
